---- MODULE Spec2Model ----
(***************************************************************************)
(* A model of pwlp: the bytecode virtual machine (pwlp/vm.rs), the signed  *)
(* message codec (pwlp/protocol.rs), the server session (pwlp/server.rs),  *)
(* the HTTP operation that assigns a program (pwlp/api.rs) and the client  *)
(* session (pwlp/client.rs).                                               *)
(*                                                                         *)
(* A u32 is a tuple of four bytes, least significant first, so that the    *)
(* full 32-bit width is kept.  A byte is a number in 0..255.               *)
(***************************************************************************)
EXTENDS Integers, Sequences, FiniteSets, TLC

\* ------------------------------------------------------------------ bounds
\* Length of the strip a VM drives (DummyStrip::new(length, ..)).
StripLength == 2
\* The instruction counter of a State is followed up to this value.
MaxCount == 6
\* Largest per-call limit and largest per-State limit that are tried.
MaxLocal == 2
MaxLimit == 3
\* Readings of the clock the environment can produce.
MaxClock == 1
\* Datagrams the network thread of the client receives.
MaxDeliveries == 2

\* --------------------------------------------------------------- u32 values
Zero32 == <<0, 0, 0, 0>>
One32 == <<1, 0, 0, 0>>

\* The u32 of a number below 2^31.
U32(n) == <<n % 256, (n \div 256) % 256, (n \div 65536) % 256, (n \div 16777216) % 256>>

\* A u32 below 2^31, and its number.
IsSmall(v) == v[4] < 128
ToNat(v) == v[1] + 256 * v[2] + 65536 * v[3] + 16777216 * v[4]

AddC(a, b, c) ==
  LET s1 == a[1] + b[1] + c
      s2 == a[2] + b[2] + (s1 \div 256)
      s3 == a[3] + b[3] + (s2 \div 256)
      s4 == a[4] + b[4] + (s3 \div 256)
  IN <<s1 % 256, s2 % 256, s3 % 256, s4 % 256>>

Not32(a) == <<255 - a[1], 255 - a[2], 255 - a[3], 255 - a[4]>>

wrapping_add(a, b) == AddC(a, b, 0)
wrapping_sub(a, b) == AddC(a, Not32(b), 1)
wrapping_neg(a) == AddC(Zero32, Not32(a), 1)

wrapping_mul(a, b) ==
  LET c1 == a[1] * b[1]
      c2 == a[1] * b[2] + a[2] * b[1] + (c1 \div 256)
      c3 == a[1] * b[3] + a[2] * b[2] + a[3] * b[1] + (c2 \div 256)
      c4 == a[1] * b[4] + a[2] * b[3] + a[3] * b[2] + a[4] * b[1] + (c3 \div 256)
  IN <<c1 % 256, c2 % 256, c3 % 256, c4 % 256>>

Lt32(a, b) ==
  \/ a[4] < b[4]
  \/ a[4] = b[4] /\ a[3] < b[3]
  \/ a[4] = b[4] /\ a[3] = b[3] /\ a[2] < b[2]
  \/ a[4] = b[4] /\ a[3] = b[3] /\ a[2] = b[2] /\ a[1] < b[1]

Bool32(p) == IF p THEN One32 ELSE Zero32

RECURSIVE BitsAnd(_, _, _)
BitsAnd(x, y, n) ==
  IF n = 0 THEN 0
  ELSE (IF x % 2 = 1 /\ y % 2 = 1 THEN 1 ELSE 0) + 2 * BitsAnd(x \div 2, y \div 2, n - 1)

RECURSIVE BitsOr(_, _, _)
BitsOr(x, y, n) ==
  IF n = 0 THEN 0
  ELSE (IF x % 2 = 1 \/ y % 2 = 1 THEN 1 ELSE 0) + 2 * BitsOr(x \div 2, y \div 2, n - 1)

RECURSIVE BitsXor(_, _, _)
BitsXor(x, y, n) ==
  IF n = 0 THEN 0
  ELSE (IF x % 2 # y % 2 THEN 1 ELSE 0) + 2 * BitsXor(x \div 2, y \div 2, n - 1)

And32(a, b) == <<BitsAnd(a[1], b[1], 8), BitsAnd(a[2], b[2], 8), BitsAnd(a[3], b[3], 8), BitsAnd(a[4], b[4], 8)>>
Or32(a, b) == <<BitsOr(a[1], b[1], 8), BitsOr(a[2], b[2], 8), BitsOr(a[3], b[3], 8), BitsOr(a[4], b[4], 8)>>
Xor32(a, b) == <<BitsXor(a[1], b[1], 8), BitsXor(a[2], b[2], 8), BitsXor(a[3], b[3], 8), BitsXor(a[4], b[4], 8)>>

\* a >> 1 as a number (always below 2^31).
Half(a) == a[4] * 8388608 + a[3] * 32768 + a[2] * 128 + (a[1] \div 2)

\* Quotient and remainder of two u32, b # 0, without leaving 31 bits.
DivMod(a, b) ==
  IF IsSmall(a) /\ IsSmall(b)
  THEN [q |-> U32(ToNat(a) \div ToNat(b)), r |-> U32(ToNat(a) % ToNat(b))]
  ELSE IF ~IsSmall(b)
  THEN IF Lt32(a, b) THEN [q |-> Zero32, r |-> a]
       ELSE [q |-> One32, r |-> wrapping_sub(a, b)]
  ELSE LET nb == ToNat(b)
           q1 == Half(a) \div nb
           r1 == Half(a) % nb
           a0 == a[1] % 2
           d  == nb - r1 - a0
       IN IF r1 >= d
          THEN [q |-> AddC(U32(q1), U32(q1), 1), r |-> U32(r1 - d)]
          ELSE [q |-> AddC(U32(q1), U32(q1), 0), r |-> U32(2 * r1 + a0)]

Shl8(a) == <<0, a[1], a[2], a[3]>>
Shr8(a) == <<a[2], a[3], a[4], 0>>

RECURSIVE ShlBits(_, _)
ShlBits(a, n) == IF n = 0 THEN a ELSE ShlBits(AddC(a, a, 0), n - 1)

RECURSIVE ShrBits(_, _)
ShrBits(a, n) == IF n = 0 THEN a ELSE ShrBits(U32(Half(a)), n - 1)


\* ----------------------------------------------------------- instruction set
Prefixes == {"POP", "PUSHB", "PEEK", "PUSHI", "JMP", "JZ", "JNZ", "UNARY", "BINARY", "USER", "SPECIAL"}

\* Prefix::from: the family of an opcode byte, "None" for an unknown nibble.
Prefix_from(code) ==
  LET n == code \div 16 IN
  CASE n = 0 -> "POP"
    [] n = 1 -> "PUSHB"
    [] n = 2 -> "PEEK"
    [] n = 3 -> "PUSHI"
    [] n = 4 -> "JMP"
    [] n = 5 -> "JZ"
    [] n = 6 -> "JNZ"
    [] n = 7 -> "UNARY"
    [] n = 8 -> "BINARY"
    [] n = 14 -> "USER"
    [] n = 15 -> "SPECIAL"
    [] OTHER -> "None"

Unary_from(code) ==
  CASE code = 0 -> "INC"
    [] code = 1 -> "DEC"
    [] code = 2 -> "NOT"
    [] code = 3 -> "NEG"
    [] code = 4 -> "SHL8"
    [] code = 5 -> "SHR8"
    [] OTHER -> "None"

Binary_from(code) ==
  CASE code = 0 -> "ADD"
    [] code = 1 -> "SUB"
    [] code = 2 -> "DIV"
    [] code = 3 -> "MUL"
    [] code = 4 -> "MOD"
    [] code = 5 -> "AND"
    [] code = 6 -> "OR"
    [] code = 7 -> "XOR"
    [] code = 8 -> "GT"
    [] code = 9 -> "GTE"
    [] code = 10 -> "LT"
    [] code = 11 -> "LTE"
    [] code = 12 -> "EQ"
    [] code = 13 -> "NEQ"
    [] code = 14 -> "SHL"
    [] code = 15 -> "SHR"
    [] OTHER -> "None"

\* UserCommand::from, by the discriminants of the enum.
UserCommand_from(code) ==
  CASE code = 0 -> "GET_LENGTH"
    [] code = 1 -> "GET_WALL_TIME"
    [] code = 2 -> "GET_PRECISE_TIME"
    [] code = 3 -> "SET_PIXEL"
    [] code = 4 -> "BLIT"
    [] code = 5 -> "RANDOM_INT"
    [] code = 6 -> "GET_PIXEL"
    [] OTHER -> "None"

\* Special::from, by the discriminants of the enum.
Special_from(code) ==
  CASE code = 12 -> "SWAP"
    [] code = 13 -> "DUMP"
    [] code = 14 -> "YIELD"
    [] code = 15 -> "TWOBYTE"
    [] OTHER -> "None"

\* Unary::apply.
Unary_apply(op, lhs) ==
  CASE op = "INC" -> wrapping_add(lhs, One32)
    [] op = "DEC" -> wrapping_sub(lhs, One32)
    [] op = "NOT" -> Not32(lhs)
    [] op = "NEG" -> wrapping_neg(lhs)
    [] op = "SHL8" -> Shl8(lhs)
    [] op = "SHR8" -> Shr8(lhs)

\* Binary::apply yields a u32 and the call site has no error path: a division
\* by zero aborts.
Binary_apply_aborts(op, rhs) == op \in {"DIV", "MOD"} /\ rhs = Zero32

\* Binary::apply, where it does not abort.
Binary_apply(op, lhs, rhs) ==
  CASE op = "ADD" -> wrapping_add(lhs, rhs)
    [] op = "SUB" -> wrapping_sub(lhs, rhs)
    [] op = "DIV" -> DivMod(lhs, rhs).q
    [] op = "MUL" -> wrapping_mul(lhs, rhs)
    [] op = "MOD" -> DivMod(lhs, rhs).r
    [] op = "AND" -> And32(lhs, rhs)
    [] op = "OR" -> Or32(lhs, rhs)
    [] op = "XOR" -> Xor32(lhs, rhs)
    [] op = "GT" -> Bool32(Lt32(rhs, lhs))
    [] op = "GTE" -> Bool32(~Lt32(lhs, rhs))
    [] op = "LT" -> Bool32(Lt32(lhs, rhs))
    [] op = "LTE" -> Bool32(~Lt32(rhs, lhs))
    [] op = "EQ" -> Bool32(lhs = rhs)
    [] op = "NEQ" -> Bool32(lhs # rhs)
    [] op = "SHL" -> ShlBits(lhs, rhs[1] % 32)
    [] op = "SHR" -> ShrBits(lhs, rhs[1] % 32)

\* ------------------------------------------------------------------- strip
\* DummyStrip::new: three zero bytes per pixel.
DummyStrip_new(length) == [length |-> length, data |-> [i \in 1..(3 * length) |-> 0]]

\* Strip::set_pixel; the caller has checked idx < length.
set_pixel(strip, idx, r, g, b) ==
  [strip EXCEPT !.data = [i \in 1..Len(@) |->
      IF i = idx * 3 + 1 THEN r
      ELSE IF i = idx * 3 + 2 THEN g
      ELSE IF i = idx * 3 + 3 THEN b
      ELSE @[i]]]

\* Strip::get_pixel; the caller has checked idx < length.
get_pixel(strip, idx) ==
  [r |-> strip.data[idx * 3 + 1], g |-> strip.data[idx * 3 + 2], b |-> strip.data[idx * 3 + 3]]

\* The assertion idx < self.length of set_pixel and get_pixel.
StripIndexOk(strip, idx) == IsSmall(idx) /\ ToNat(idx) < strip.length


\* ---------------------------------------------------------- virtual machine
\* A State is [program, pc, stack, instruction_count, instruction_limit,
\* deterministic_rng]; the VM it borrows is [strip, deterministic].  `trace`
\* only prints and `start_time` is read through the clock, so neither is kept.
\* An Option<usize> is <<>> (None) or <<n>> (Some(n)).  The ChaCha20 generator
\* is deterministic: its state is the number of values drawn.  "Panic" marks
\* an abort of the process (a failed assertion, unwrap or index).
None == "None"
Panic == "Panic"
NoLimit == <<>>
Some(n) == <<n>>

\* State::new.
State_new(program, instruction_limit) ==
  [program |-> program, pc |-> 0, stack |-> <<>>, instruction_count |-> 0,
   instruction_limit |-> instruction_limit, deterministic_rng |-> 0]

\* VM::new followed by set_deterministic.
VM_new(strip, deterministic) == [strip |-> strip, deterministic |-> deterministic]

\* VM::start with a State that has already counted an instruction.
start_keeps_count(program, instruction_limit) ==
  [State_new(program, instruction_limit) EXCEPT !.instruction_count = 1]

\* VM::start.
start(program, instruction_limit) == State_new(program, instruction_limit)

\* self.program.code[i], i counted from 0; an index past the end aborts.
Code(st, i) == st.program[i + 1]
InCode(st, i) == i < Len(st.program)

Pop(stack) == SubSeq(stack, 1, Len(stack) - 1)
Last(stack) == stack[Len(stack)]

\* The result of one instruction: the State and VM after it, `out` the Outcome
\* returned ("None": go on), and `eff` what the strip was asked to do.
Res(vm, st, out, eff) == [vm |-> vm, st |-> st, out |-> out, eff |-> eff]

\* The value gen_range(0, v) draws as the n-th value of the generator.
gen_range(n, v) ==
  IF IsSmall(v) THEN U32((7 * n + 3) % ToNat(v)) ELSE U32(7 * n + 3)

RECURSIVE pushi(_, _, _)
pushi(vm, st, postfix) ==
  IF postfix = 0 THEN Res(vm, st, None, <<>>)
  ELSE IF ~InCode(st, st.pc + 4) THEN Res(vm, st, Panic, <<>>)
  ELSE pushi(vm,
             [st EXCEPT !.stack = Append(@, <<Code(st, st.pc + 1), Code(st, st.pc + 2),
                                             Code(st, st.pc + 3), Code(st, st.pc + 4)>>),
                        !.pc = @ + 4],
             postfix - 1)

RECURSIVE pushb_bytes(_, _, _)
pushb_bytes(vm, st, n) ==
  IF n = 0 THEN Res(vm, st, None, <<>>)
  ELSE IF ~InCode(st, st.pc + 1) THEN Res(vm, st, Panic, <<>>)
  ELSE pushb_bytes(vm,
                   [st EXCEPT !.stack = Append(@, <<Code(st, st.pc + 1), 0, 0, 0>>),
                              !.pc = @ + 1],
                   n - 1)

\* State::pushb that pushes a zero and leaves its operands unread.
pushb_skips_operands(vm, st, postfix) ==
  Res(vm, [st EXCEPT !.stack = Append(@, Zero32)], None, <<>>)

\* State::pushb.
pushb(vm, st, postfix) ==
  IF postfix = 0 THEN Res(vm, [st EXCEPT !.stack = Append(@, Zero32)], None, <<>>)
  ELSE pushb_bytes(vm, st, postfix)

\* State::user with GET_PRECISE_TIME reading the clock in deterministic mode too.
user_reads_clock(vm, st, postfix, now) ==
  LET u == UserCommand_from(postfix) IN
  CASE u = None -> Res(vm, st, "Error_UnknownInstruction", <<>>)
    [] u = "GET_LENGTH" ->
         Res(vm, [st EXCEPT !.stack = Append(@, U32(vm.strip.length))], None, <<>>)
    [] u = "GET_WALL_TIME" ->
         IF vm.deterministic
         THEN Res(vm, [st EXCEPT !.stack = Append(@, U32(st.instruction_count \div 10))], None, <<>>)
         ELSE Res(vm, [st EXCEPT !.stack = Append(@, U32(now))], None, <<>>)
    [] u = "GET_PRECISE_TIME" ->
         Res(vm, [st EXCEPT !.stack = Append(@, U32(1000 * now))], None, <<>>)
    [] u = "SET_PIXEL" ->
         IF st.stack = <<>> THEN Res(vm, st, "Error_StackUnderflow", <<>>)
         ELSE LET v == Last(st.stack)
                  rest == Pop(st.stack)
              IN IF rest = <<>> THEN Res(vm, st, Panic, <<>>)
                 ELSE IF ~StripIndexOk(vm.strip, Last(rest)) THEN Res(vm, st, Panic, <<>>)
                 ELSE Res([vm EXCEPT !.strip = set_pixel(@, ToNat(Last(rest)), v[1], v[2], v[3])],
                          [st EXCEPT !.stack = rest], None,
                          <<<<"set_pixel", ToNat(Last(rest)), v[1], v[2], v[3]>>>>)
    [] u = "BLIT" -> Res(vm, st, None, <<<<"blit", vm.strip.data>>>>)
    [] u = "RANDOM_INT" ->
         IF st.stack = <<>> THEN Res(vm, st, "Error_StackUnderflow", <<>>)
         ELSE LET v == Last(st.stack) IN
              IF v = Zero32 THEN Res(vm, st, Panic, <<>>)
              ELSE Res(vm, [st EXCEPT !.stack = Append(Pop(@), gen_range(st.deterministic_rng, v)),
                                      !.deterministic_rng = @ + 1], None, <<>>)
    [] u = "GET_PIXEL" ->
         IF st.stack = <<>> THEN Res(vm, st, "Error_StackUnderflow", <<>>)
         ELSE LET v == Last(st.stack) IN
              IF ~StripIndexOk(vm.strip, v) THEN Res(vm, st, Panic, <<>>)
              ELSE LET color == get_pixel(vm.strip, ToNat(v)) IN
                   Res(vm, [st EXCEPT !.stack = Append(Pop(@), <<v[1], color.r, color.g, color.b>>)],
                       None, <<>>)

\* State::user; `now` is the reading of the clock.
user(vm, st, postfix, now) ==
  LET u == UserCommand_from(postfix) IN
  CASE u = None -> Res(vm, st, "Error_UnknownInstruction", <<>>)
    [] u = "GET_LENGTH" ->
         Res(vm, [st EXCEPT !.stack = Append(@, U32(vm.strip.length))], None, <<>>)
    [] u = "GET_WALL_TIME" ->
         IF vm.deterministic
         THEN Res(vm, [st EXCEPT !.stack = Append(@, U32(st.instruction_count \div 10))], None, <<>>)
         ELSE Res(vm, [st EXCEPT !.stack = Append(@, U32(now))], None, <<>>)
    [] u = "GET_PRECISE_TIME" ->
         IF vm.deterministic
         THEN Res(vm, [st EXCEPT !.stack = Append(@, U32(st.instruction_count))], None, <<>>)
         ELSE Res(vm, [st EXCEPT !.stack = Append(@, U32(1000 * now))], None, <<>>)
    [] u = "SET_PIXEL" ->
         IF st.stack = <<>> THEN Res(vm, st, "Error_StackUnderflow", <<>>)
         ELSE LET v == Last(st.stack)
                  rest == Pop(st.stack)
              IN IF rest = <<>> THEN Res(vm, st, Panic, <<>>)
                 ELSE IF ~StripIndexOk(vm.strip, Last(rest)) THEN Res(vm, st, Panic, <<>>)
                 ELSE Res([vm EXCEPT !.strip = set_pixel(@, ToNat(Last(rest)), v[1], v[2], v[3])],
                          [st EXCEPT !.stack = rest], None,
                          <<<<"set_pixel", ToNat(Last(rest)), v[1], v[2], v[3]>>>>)
    [] u = "BLIT" -> Res(vm, st, None, <<<<"blit", vm.strip.data>>>>)
    [] u = "RANDOM_INT" ->
         IF st.stack = <<>> THEN Res(vm, st, "Error_StackUnderflow", <<>>)
         ELSE LET v == Last(st.stack) IN
              IF v = Zero32 THEN Res(vm, st, Panic, <<>>)
              ELSE Res(vm, [st EXCEPT !.stack = Append(Pop(@), gen_range(st.deterministic_rng, v)),
                                      !.deterministic_rng = @ + 1], None, <<>>)
    [] u = "GET_PIXEL" ->
         IF st.stack = <<>> THEN Res(vm, st, "Error_StackUnderflow", <<>>)
         ELSE LET v == Last(st.stack) IN
              IF ~StripIndexOk(vm.strip, v) THEN Res(vm, st, Panic, <<>>)
              ELSE LET color == get_pixel(vm.strip, ToNat(v)) IN
                   Res(vm, [st EXCEPT !.stack = Append(Pop(@), <<v[1], color.r, color.g, color.b>>)],
                       None, <<>>)

\* State::special.
special(vm, st, postfix) ==
  LET s == Special_from(postfix) IN
  CASE s = None -> Res(vm, st, "Error_UnknownInstruction", <<>>)
    [] s = "SWAP" ->
         IF Len(st.stack) < 2 THEN Res(vm, st, "Error_StackUnderflow", <<>>)
         ELSE LET lhs == Last(st.stack)
                  rhs == Last(Pop(st.stack))
              IN Res(vm, [st EXCEPT !.stack = Append(Append(Pop(Pop(@)), lhs), rhs)], None, <<>>)
    [] s = "DUMP" -> Res(vm, st, None, <<>>)
    [] s = "YIELD" -> Res(vm, [st EXCEPT !.pc = @ + 1], "Yielded", <<>>)
    [] s = "TWOBYTE" -> Res(vm, st, "Error_UnknownInstruction", <<>>)


\* The body of the `match i` of State::run for a known prefix, with the
\* increment of instruction_count before it and the `pc += 1` after it.
Execute(vm, st0, now) ==
  LET st == [st0 EXCEPT !.instruction_count = @ + 1]
      i == Prefix_from(Code(st, st.pc))
      postfix == Code(st, st.pc) % 16
      target == Code(st, st.pc + 1) + 256 * Code(st, st.pc + 2)
      r ==
        CASE i = "PUSHI" -> pushi(vm, st, postfix)
          [] i = "PUSHB" -> pushb(vm, st, postfix)
          [] i = "POP" ->
               IF postfix > Len(st.stack) THEN Res(vm, st, Panic, <<>>)
               ELSE Res(vm, [st EXCEPT !.stack = SubSeq(@, 1, Len(@) - postfix)], None, <<>>)
          [] i = "PEEK" ->
               IF postfix >= Len(st.stack) THEN Res(vm, st, Panic, <<>>)
               ELSE Res(vm, [st EXCEPT !.stack = Append(@, @[Len(@) - postfix])], None, <<>>)
          [] i \in {"JMP", "JZ", "JNZ"} ->
               IF ~InCode(st, st.pc + 2) THEN Res(vm, st, Panic, <<>>)
               ELSE IF i = "JMP" THEN Res(vm, [st EXCEPT !.pc = target], "Jumped", <<>>)
               ELSE IF st.stack = <<>> THEN Res(vm, st, "Error_StackUnderflow", <<>>)
               ELSE IF i = "JZ"
               THEN Res(vm, [st EXCEPT !.pc = IF Last(st.stack) = Zero32 THEN target ELSE @ + 3],
                        "Jumped", <<>>)
               ELSE Res(vm, [st EXCEPT !.pc = IF Last(st.stack) # Zero32 THEN target ELSE @ + 3],
                        "Jumped", <<>>)
          [] i = "BINARY" ->
               IF Binary_from(postfix) = None THEN Res(vm, st, "Error_UnknownInstruction", <<>>)
               ELSE IF Len(st.stack) < 2 THEN Res(vm, st, "Error_StackUnderflow", <<>>)
               ELSE LET rhs == Last(st.stack)
                        lhs == Last(Pop(st.stack))
                    IN IF Binary_apply_aborts(Binary_from(postfix), rhs)
                       THEN Res(vm, st, Panic, <<>>)
                       ELSE Res(vm, [st EXCEPT !.stack = Append(Pop(Pop(@)),
                                       Binary_apply(Binary_from(postfix), lhs, rhs))], None, <<>>)
          [] i = "UNARY" ->
               IF Unary_from(postfix) = None THEN Res(vm, st, "Error_UnknownInstruction", <<>>)
               ELSE IF st.stack = <<>> THEN Res(vm, st, "Error_StackUnderflow", <<>>)
               ELSE Res(vm, [st EXCEPT !.stack =
                               Append(Pop(@), Unary_apply(Unary_from(postfix), Last(@)))],
                        None, <<>>)
          [] i = "USER" -> user(vm, st, postfix, now)
          [] i = "SPECIAL" -> special(vm, st, postfix)
  IN CASE r.out = None -> [r EXCEPT !.st.pc = @ + 1]
       [] r.out = "Jumped" -> [r EXCEPT !.out = None]
       [] OTHER -> r

\* The outcomes run can return.
Outcomes ==
  {"Ended", "GlobalInstructionLimitReached", "LocalInstructionLimitReached", "Yielded",
   "Error_UnknownInstruction", "Error_StackUnderflow"}

\* RunIter with the local limit compared by > instead of >=.
RunIter_limit_off_by_one(vm, st, lc, local_instruction_limit, now) ==
  IF ~(st.pc < Len(st.program))
  THEN [res |-> Res(vm, st, "Ended", <<>>), lc |-> lc, ran |-> FALSE]
  ELSE IF st.instruction_limit # NoLimit /\ st.instruction_count >= st.instruction_limit[1]
  THEN [res |-> Res(vm, st, "GlobalInstructionLimitReached", <<>>), lc |-> lc, ran |-> FALSE]
  ELSE IF local_instruction_limit # NoLimit /\ lc > local_instruction_limit[1]
  THEN [res |-> Res(vm, st, "LocalInstructionLimitReached", <<>>), lc |-> lc, ran |-> FALSE]
  ELSE IF Prefix_from(Code(st, st.pc)) = None
  THEN [res |-> Res(vm, st, "Ended", <<>>), lc |-> lc, ran |-> FALSE]
  ELSE [res |-> Execute(vm, st, now), lc |-> lc + 1, ran |-> TRUE]

\* RunIter with a local-limit return that steps over the opcode it did not run.
RunIter_limit_advances_pc(vm, st, lc, local_instruction_limit, now) ==
  IF ~(st.pc < Len(st.program))
  THEN [res |-> Res(vm, st, "Ended", <<>>), lc |-> lc, ran |-> FALSE]
  ELSE IF st.instruction_limit # NoLimit /\ st.instruction_count >= st.instruction_limit[1]
  THEN [res |-> Res(vm, st, "GlobalInstructionLimitReached", <<>>), lc |-> lc, ran |-> FALSE]
  ELSE IF local_instruction_limit # NoLimit /\ lc >= local_instruction_limit[1]
  THEN [res |-> Res(vm, [st EXCEPT !.pc = @ + 1], "LocalInstructionLimitReached", <<>>),
        lc |-> lc, ran |-> FALSE]
  ELSE IF Prefix_from(Code(st, st.pc)) = None
  THEN [res |-> Res(vm, st, "Ended", <<>>), lc |-> lc, ran |-> FALSE]
  ELSE [res |-> Execute(vm, st, now), lc |-> lc + 1, ran |-> TRUE]

\* RunIter with the global limit compared by > instead of >=.
RunIter_global_limit_off_by_one(vm, st, lc, local_instruction_limit, now) ==
  IF ~(st.pc < Len(st.program))
  THEN [res |-> Res(vm, st, "Ended", <<>>), lc |-> lc, ran |-> FALSE]
  ELSE IF st.instruction_limit # NoLimit /\ st.instruction_count > st.instruction_limit[1]
  THEN [res |-> Res(vm, st, "GlobalInstructionLimitReached", <<>>), lc |-> lc, ran |-> FALSE]
  ELSE IF local_instruction_limit # NoLimit /\ lc >= local_instruction_limit[1]
  THEN [res |-> Res(vm, st, "LocalInstructionLimitReached", <<>>), lc |-> lc, ran |-> FALSE]
  ELSE IF Prefix_from(Code(st, st.pc)) = None
  THEN [res |-> Res(vm, st, "Ended", <<>>), lc |-> lc, ran |-> FALSE]
  ELSE [res |-> Execute(vm, st, now), lc |-> lc + 1, ran |-> TRUE]

\* One turn of the `while` of State::run: `out` is the Outcome returned in
\* this turn or "None", `lc` is local_instruction_count after it and `ran`
\* tells whether an opcode was dispatched.
RunIter(vm, st, lc, local_instruction_limit, now) ==
  IF ~(st.pc < Len(st.program))
  THEN [res |-> Res(vm, st, "Ended", <<>>), lc |-> lc, ran |-> FALSE]
  ELSE IF st.instruction_limit # NoLimit /\ st.instruction_count >= st.instruction_limit[1]
  THEN [res |-> Res(vm, st, "GlobalInstructionLimitReached", <<>>), lc |-> lc, ran |-> FALSE]
  ELSE IF local_instruction_limit # NoLimit /\ lc >= local_instruction_limit[1]
  THEN [res |-> Res(vm, st, "LocalInstructionLimitReached", <<>>), lc |-> lc, ran |-> FALSE]
  ELSE IF Prefix_from(Code(st, st.pc)) = None
  THEN [res |-> Res(vm, st, "Ended", <<>>), lc |-> lc, ran |-> FALSE]
  ELSE [res |-> Execute(vm, st, now), lc |-> lc + 1, ran |-> TRUE]

\* State::run as a whole from local count lc, with the clock standing at
\* `now`: the final State, VM and Outcome and everything the strip was asked
\* to do.  "Capped" is returned where the counter leaves MaxCount.
RECURSIVE run(_, _, _, _, _)
run(vm, st, lc, local_instruction_limit, now) ==
  LET it == RunIter(vm, st, lc, local_instruction_limit, now) IN
  IF it.ran /\ st.instruction_count >= MaxCount THEN Res(vm, st, "Capped", <<>>)
  ELSE IF it.res.out # None THEN it.res
  ELSE LET rest == run(it.res.vm, it.res.st, it.lc, local_instruction_limit, now)
       IN [rest EXCEPT !.eff = it.res.eff \o @]


\* ------------------------------------------------------------ message codec
SHA1_SIZE == 20
MAC_SIZE == 6
MESSAGE_TYPE_SIZE == 1
TIME_SIZE == 4

\* hmac_sha1(key, data): twenty bytes that depend on the key, on the length of
\* the data and on every byte of it.  The data are folded into twenty columns;
\* for the frames used here different (key, data) give different digests.
KeyNumber(key) ==
  CASE key = "secret" -> 1
    [] key = "device" -> 2
    [] OTHER -> 3

RECURSIVE Fold(_, _, _)
Fold(data, i, j) ==
  IF j > Len(data) THEN 0
  ELSE data[j] * (1 + 2 * ((j - 1) \div SHA1_SIZE)) + Fold(data, i, j + SHA1_SIZE)

hmac_sha1(key, data) ==
  [i \in 1..SHA1_SIZE |-> (37 * KeyNumber(key) + 3 * Len(data) + i + Fold(data, i, i)) % 256]

\* MessageType::from reading a Pong as a Ping and a Set as a Run.
MessageType_from_two_types(t) ==
  CASE t = 1 -> "Ping"
    [] t = 2 -> "Ping"
    [] t = 3 -> "Run"
    [] t = 4 -> "Run"
    [] OTHER -> "Unknown"

\* MessageType::from.
MessageType_from(t) ==
  CASE t = 1 -> "Ping"
    [] t = 2 -> "Pong"
    [] t = 3 -> "Set"
    [] t = 4 -> "Run"
    [] OTHER -> "Unknown"

\* u8::from(&MessageType); Unknown has no byte (the conversion aborts).
MessageType_u8(v) ==
  CASE v = "Ping" -> 1
    [] v = "Pong" -> 2
    [] v = "Set" -> 3
    [] v = "Run" -> 4

\* A Message is [mac_address, unix_time, message_type, payload]: six bytes, a
\* u32, a type and an Option<Vec<u8>> (<<>> is None, <<p>> is Some(p)).
Message(message_type, mac_address, unix_time, payload) ==
  [mac_address |-> mac_address, unix_time |-> unix_time,
   message_type |-> message_type, payload |-> payload]

NilMac == <<0, 0, 0, 0, 0, 0>>

\* The bytes of an Option<Vec<u8>>.
PayloadBytes(payload) == IF payload = <<>> THEN <<>> ELSE payload[1]

\* The wire form of a header, a payload and the signature over both.
Frame(mac_address, unix_time, type_byte, bytes, key) ==
  LET buf == mac_address \o unix_time \o <<type_byte>> \o bytes
  IN buf \o hmac_sha1(key, buf)

\* Message::signed.
signed(m, key) ==
  Frame(m.mac_address, m.unix_time, MessageType_u8(m.message_type), PayloadBytes(m.payload), key)

Ok(v) == [ok |-> TRUE, v |-> v, err |-> None]
Err(e) == [ok |-> FALSE, v |-> <<>>, err |-> e]

\* Message::peek_mac_address.  MacAddress::from_bytes accepts any six bytes.
peek_mac_address(buffer) ==
  IF Len(buffer) < SHA1_SIZE + MAC_SIZE THEN Err("MessageTooShort")
  ELSE Ok(SubSeq(buffer, 1, 6))

\* Message::from_buffer without the comparison of the signature.
from_buffer_unverified(buffer, key) ==
  IF Len(buffer) < SHA1_SIZE THEN Err(Panic)
  ELSE LET data_size == Len(buffer) - SHA1_SIZE IN
    IF data_size < 6 THEN Err("MessageTooShort")
    ELSE IF data_size < MAC_SIZE + TIME_SIZE THEN Err(Panic)
    ELSE LET payload_size == data_size - MAC_SIZE - TIME_SIZE IN
      Ok(Message(MessageType_from(buffer[MAC_SIZE + TIME_SIZE + 1]),
                 SubSeq(buffer, 1, 6),
                 SubSeq(buffer, MAC_SIZE + 1, MAC_SIZE + TIME_SIZE),
                 IF payload_size = 0 THEN <<>>
                 ELSE <<SubSeq(buffer, Len(buffer) - payload_size + 1, Len(buffer))>>))

\* Message::from_buffer.  buffer.len() - SHA1_SIZE and data_size - MAC_SIZE -
\* TIME_SIZE are unsigned: where they would be negative the call aborts (in a
\* build without overflow checks the slice taken next is out of range).
from_buffer(buffer, key) ==
  IF Len(buffer) < SHA1_SIZE THEN Err(Panic)
  ELSE LET data_size == Len(buffer) - SHA1_SIZE IN
    IF data_size < 6 THEN Err("MessageTooShort")
    ELSE IF hmac_sha1(key, SubSeq(buffer, 1, data_size))
              # SubSeq(buffer, data_size + 1, data_size + SHA1_SIZE)
    THEN Err("SignatureInvalid")
    ELSE IF data_size < MAC_SIZE + TIME_SIZE THEN Err(Panic)
    ELSE LET payload_size == data_size - MAC_SIZE - TIME_SIZE IN
      Ok(Message(MessageType_from(buffer[MAC_SIZE + TIME_SIZE + 1]),
                 SubSeq(buffer, 1, 6),
                 SubSeq(buffer, MAC_SIZE + 1, MAC_SIZE + TIME_SIZE),
                 IF payload_size = 0 THEN <<>>
                 ELSE <<SubSeq(buffer, Len(buffer) - payload_size + 1, Len(buffer))>>))

\* ------------------------------------------------------------------- state
VARIABLES
  vm,         \* the VM: [strip, deterministic]
  state,      \* the State started on it
  call,       \* the call of State::run in progress, or the last one
  clock,      \* the reading of the clock (seconds)
  strip_log,  \* everything the strip was asked to do since State::new
  codec,      \* a message on its way through signed and from_buffer
  server,     \* the server: [status, config, devices]
  inbox,      \* the operation the server did last and its input
  sent,       \* the datagrams that operation sent, in order
  authenticated,  \* the MACs a correctly signed frame was received from
  threads,    \* the mutex on the server state and the two threads that take it
  client,     \* the strip thread of the client: [status, pos, program, started, taken, initial]
  channel,    \* the programs sent by the network thread and not yet received
  net,        \* the network thread of the client: [status, pos, received, sent, payloads]
  compiler    \* a source on its way through parse: [step, source, program]

vmVars == <<vm, state, call, strip_log>>
codecVars == <<codec>>
serverVars == <<server, inbox, sent, authenticated, threads>>
clientVars == <<client, channel, net>>
compilerVars == <<compiler>>
vars ==
  <<vm, state, call, clock, strip_log, codec, server, inbox, sent, authenticated, threads,
    client, channel, net, compiler>>

\* ---------------------------------------------------------------- programs
\* Instructions and cut-off instructions programs are put together from.
Chunks ==
  { <<0>>, <<1>>,                          \* POP 0, POP 1
    <<16>>, <<17, 1>>, <<17>>,             \* PUSHB 0, PUSHB 1 [1], PUSHB 1 cut off
    <<32>>, <<33>>,                        \* PEEK 0, PEEK 1
    <<49, 239, 190, 173, 222>>, <<49, 1>>, \* PUSHI 1 [0xDEADBEEF], PUSHI 1 cut off
    <<64, 0, 0>>, <<64>>,                  \* JMP 0, JMP cut off
    <<80, 0, 0>>, <<96, 0, 0>>,            \* JZ 0, JNZ 0
    <<113>>, <<119>>,                      \* UNARY DEC, UNARY 7
    <<128>>, <<130>>,                      \* BINARY ADD, BINARY DIV
    <<224>>, <<226>>, <<227>>, <<228>>,    \* GET_LENGTH, GET_PRECISE_TIME, SET_PIXEL, BLIT
    <<229>>, <<230>>, <<231>>,             \* RANDOM_INT, GET_PIXEL, USER 7
    <<252>>, <<254>>, <<255>>, <<240>>,    \* SWAP, YIELD, TWOBYTE, SPECIAL 0
    <<144>> }                              \* unknown prefix 9

\* Longer programs: a frame loop, a countdown, a division and a remainder by
\* zero, a pixel set one past the end of the strip, a clock reader.
Samples ==
  { <<17, 1, 17, 255, 227, 228, 254, 64, 0, 0>>,
    <<17, 2, 254, 113, 96, 2, 0, 1>>,
    <<49, 239, 190, 173, 222, 16, 130>>,
    <<17, 1, 16, 132>>,
    <<224, 16, 227>>,
    <<225, 226, 229, 254, 64, 0, 0>> }

Programs == {<<>>} \cup Chunks \cup {a \o b : a \in Chunks, b \in Chunks} \cup Samples

Limits == {NoLimit} \cup {Some(n) : n \in 1..MaxLimit}
LocalLimits == {NoLimit} \cup {Some(n) : n \in 0..MaxLocal}

\* ------------------------------------------------------------ VM operations
NoCall == [active |-> FALSE, limit |-> NoLimit, lc |-> 0, outcome |-> None,
           dispatched |-> 0, resumed |-> FALSE]

\* VM::start on a fresh strip: State::new.
VMStart ==
  \E program \in Programs, limit \in Limits, deterministic \in BOOLEAN :
    /\ vm = VM_new(DummyStrip_new(StripLength), deterministic)
    /\ state = State_new(program, limit)
    /\ call = NoCall
    /\ strip_log = <<>>

\* No program is started.
VMIdle ==
  /\ vm = VM_new(DummyStrip_new(StripLength), FALSE)
  /\ state = State_new(<<>>, NoLimit)
  /\ call = NoCall
  /\ strip_log = <<>>

\* A caller enters state.run(local_instruction_limit).
RunCall(k) ==
  /\ ~call.active
  /\ call.outcome # Panic
  /\ call' = [active |-> TRUE, limit |-> k, lc |-> 0, outcome |-> None, dispatched |-> 0,
              resumed |-> call.resumed \/ call.outcome = "LocalInstructionLimitReached"]
  /\ UNCHANGED <<compilerVars, vm, state, clock, strip_log, codecVars, serverVars, clientVars>>

\* One turn of the loop of State::run.
RunStep ==
  /\ call.active
  /\ LET it == RunIter(vm, state, call.lc, call.limit, clock) IN
     /\ it.ran => state.instruction_count < MaxCount
     /\ vm' = it.res.vm
     /\ state' = it.res.st
     /\ strip_log' = strip_log \o it.res.eff
     /\ call' = [call EXCEPT !.lc = it.lc,
                             !.dispatched = IF it.ran THEN @ + 1 ELSE @,
                             !.outcome = it.res.out,
                             !.active = (it.res.out = None)]
  /\ UNCHANGED <<compilerVars, clock, codecVars, serverVars, clientVars>>

\* Time passes.
Tick ==
  /\ clock < MaxClock
  /\ clock' = clock + 1
  /\ UNCHANGED <<compilerVars, vmVars, codecVars, server, sent, authenticated, threads,
                 clientVars>>
  /\ inbox' = IF inbox.op = "init" THEN inbox ELSE [inbox EXCEPT !.op = "tick"]


\* ------------------------------------------------------ codec operations
Secrets == {"secret", "device"}
MacA == <<2, 0, 0, 0, 0, 1>>
MacB == <<2, 0, 0, 0, 0, 2>>
Macs == {MacA, MacB}
Times == {U32(7), <<239, 190, 173, 222>>}

CodecMessages ==
  {Message(t, mac, time, payload) :
     t \in {"Ping", "Pong", "Set", "Run"}, mac \in Macs, time \in Times,
     payload \in {<<>>, <<<<>>>>, <<<<228>>>>, <<<<17, 1, 254>>>>}}

CodecStart ==
  \E m \in CodecMessages, key \in Secrets :
    codec = [step |-> "new", msg |-> m, secret |-> key, wire |-> <<>>, parsed |-> Err(None)]

CodecIdle ==
  codec = [step |-> "idle", msg |-> Message("Ping", NilMac, Zero32, <<>>), secret |-> "secret",
           wire |-> <<>>, parsed |-> Err(None)]

\* The sender serialises and signs the message.
CodecSign ==
  /\ codec.step = "new"
  /\ codec' = [codec EXCEPT !.step = "signed", !.wire = signed(codec.msg, codec.secret)]
  /\ UNCHANGED <<compilerVars, vmVars, clock, serverVars, clientVars>>

\* The receiver verifies and parses the frame with the same secret.
CodecParse ==
  /\ codec.step = "signed"
  /\ codec' = [codec EXCEPT !.step = "parsed", !.parsed = from_buffer(codec.wire, codec.secret)]
  /\ UNCHANGED <<compilerVars, vmVars, clock, serverVars, clientVars>>

\* ------------------------------------------------------ server operations
Addresses == {"10.0.0.1:33332", "10.0.0.2:33332"}

\* Bytecode of the default program, of a device's program file and of the
\* built-in programs of the HTTP API.
DefaultProgram == <<228, 254, 64, 0, 0>>
FileProgram == <<16, 1>>
BuiltinNames == {"off", "default"}
BUILTIN_PROGRAMS(name) == IF name = "off" THEN <<228>> ELSE <<17, 1, 1>>

\* What Program::from_file can return.
FileResults == {Ok(FileProgram), Err("io")}

\* The device tables configured: MacA with a secret and a program file of its
\* own or with neither, MacB not configured.
Configs ==
  {[m \in {MacA} |-> [program |-> <<"a.bin">>, secret |-> <<"device">>]],
   [m \in {MacA} |-> [program |-> <<>>, secret |-> <<>>]]}

NoInput == [op |-> "init", buf |-> <<>>, source |-> "", now |-> 0, file |-> Err(None)]

\* The server thread and the task of an API call, with what each has read.
NoThreads ==
  [lock |-> "free", poisoned |-> FALSE,
   server |-> [pc |-> "idle", buf |-> <<>>, source |-> "", seen |-> <<>>, new_status |-> <<>>,
               handled |-> 0, written |-> <<>>],
   api |-> [pc |-> "idle", device |-> <<>>, name |-> "", seen |-> <<>>, device_state |-> <<>>,
            result |-> None]]

\* Server::new.
ServerStart ==
  \E config \in Configs :
    /\ server = [status |-> "running", config |-> config, devices |-> <<>>]
    /\ inbox = NoInput
    /\ sent = <<>>
    /\ authenticated = {}
    /\ threads = NoThreads

ServerIdle ==
  /\ server = [status |-> "idle", config |-> <<>>, devices |-> <<>>]
  /\ inbox = NoInput
  /\ sent = <<>>
  /\ authenticated = {}
  /\ threads = NoThreads

\* The secret a datagram of this MAC is verified with.
secret_for(config, mac, default_secret) ==
  IF mac \in DOMAIN config /\ config[mac].secret # <<>> THEN config[mac].secret[1]
  ELSE default_secret

\* The signature of a buffer is the HMAC of what precedes it.
Verifies(buf, key) ==
  /\ Len(buf) >= SHA1_SIZE
  /\ hmac_sha1(key, SubSeq(buf, 1, Len(buf) - SHA1_SIZE))
       = SubSeq(buf, Len(buf) - SHA1_SIZE + 1, Len(buf))

\* device_program preferring the configured file to the recorded program.
device_program_file_first(program, config, mac, file, default_program) ==
  IF mac \in DOMAIN config /\ config[mac].program # <<>> THEN file
  ELSE IF program # <<>> THEN Ok(program[1])
  ELSE Ok(default_program)

\* The program sent on a Ping: the recorded one, else the configured file
\* (whose loading may fail), else the default one.
device_program(program, config, mac, file, default_program) ==
  IF program # <<>> THEN Ok(program[1])
  ELSE IF mac \in DOMAIN config /\ config[mac].program # <<>> THEN file
  ELSE Ok(default_program)

Put(devices, key, status) == [k \in DOMAIN devices \cup {key} |-> IF k = key THEN status ELSE devices[k]]

\* The body of the loop of Server::run for one datagram.  The result is the
\* device table, the datagrams sent and whether the thread is still running.
Handle(srv, buf, source_address, now, file) ==
  LET pm == peek_mac_address(buf)
      quiet == [devices |-> srv.devices, out |-> <<>>, status |-> "running"]
  IN
  IF ~pm.ok THEN quiet
  ELSE
    LET mac == pm.v
        secret == secret_for(srv.config, mac, "secret")
        r == from_buffer(buf, secret)
    IN
    IF r.err = Panic THEN [quiet EXCEPT !.status = "panicked"]
    ELSE IF ~r.ok THEN quiet
    ELSE
      LET msg == r.v
          status0 == IF mac \in DOMAIN srv.devices THEN srv.devices[mac]
                     ELSE [address |-> source_address, program |-> <<>>,
                           secret |-> secret, last_seen |-> now]
          new_status == [status0 EXCEPT !.last_seen = now]
      IN
      IF msg.message_type = "Ping"
      THEN
        LET pong == Message("Pong", NilMac, msg.unix_time, <<>>)
            p == device_program(new_status.program, srv.config, mac, file, DefaultProgram)
        IN
        IF ~from_buffer(signed(pong, secret), secret).ok
        THEN [quiet EXCEPT !.status = "panicked"]
        ELSE IF ~p.ok
        THEN [devices |-> srv.devices, status |-> "panicked",
              out |-> <<[to |-> source_address, msg |-> pong, key |-> secret]>>]
        ELSE
          LET run_msg == Message("Run", NilMac, msg.unix_time, <<p.v>>)
          IN [devices |-> Put(srv.devices, mac, [new_status EXCEPT !.program = <<p.v>>]),
              status |-> "running",
              out |-> <<[to |-> source_address, msg |-> pong, key |-> secret],
                        [to |-> source_address, msg |-> run_msg, key |-> secret]>>]
      ELSE [devices |-> Put(srv.devices, mac, new_status), out |-> <<>>, status |-> "running"]

\* Datagrams that arrive at the server: frames of every type signed with the
\* right and with wrong secrets, and buffers too short to hold a frame.
ServerDatagrams ==
  {Frame(MacA, U32(7), 1, <<>>, key) : key \in Secrets}
  \cup {Frame(MacB, <<239, 190, 173, 222>>, 1, <<>>, key) : key \in Secrets}
  \cup {Frame(MacB, U32(7), 2, <<>>, "secret"), Frame(MacA, U32(7), 9, <<>>, "secret")}
  \cup {<<>>, [i \in 1..25 |-> 0], MacA \o hmac_sha1("secret", MacA)}

\* The Ping comes from a device that has a program file configured: what
\* Program::from_file would give for it is part of the input.
LoadsFile(srv, buf) ==
  /\ peek_mac_address(buf).ok
  /\ LET mac == peek_mac_address(buf).v IN
     /\ mac \in DOMAIN srv.config
     /\ srv.config[mac].program # <<>>
     /\ buf[MAC_SIZE + TIME_SIZE + 1] = 1

FileResultsFor(srv, buf) == IF LoadsFile(srv, buf) THEN FileResults ELSE {Err(None)}

\* The server receives a datagram and handles it.
Receive(buf, source_address, file) ==
  /\ server.status = "running"
  /\ LET h == Handle(server, buf, source_address, clock, file) IN
     /\ server' = [server EXCEPT !.devices = h.devices, !.status = h.status]
     /\ sent' = h.out
  /\ inbox' = [op |-> "receive", buf |-> buf, source |-> source_address, now |-> clock,
               file |-> file]
  /\ authenticated' =
       IF peek_mac_address(buf).ok
          /\ Verifies(buf, secret_for(server.config, peek_mac_address(buf).v, "secret"))
       THEN authenticated \cup {peek_mac_address(buf).v}
       ELSE authenticated
  /\ UNCHANGED <<compilerVars, vmVars, clock, codecVars, threads, clientVars>>

\* set_builtin_program of the HTTP API, under the lock on the server state.
\* The Run message is stamped with the time of the call.
set_builtin_program(device_address, program_name, send_ok) ==
  /\ server.status = "running"
  /\ inbox' = [NoInput EXCEPT !.op = "api", !.now = clock]
  /\ IF device_address \in DOMAIN server.devices /\ program_name \in BuiltinNames
     THEN LET program == BUILTIN_PROGRAMS(program_name)
              device_state == [server.devices[device_address] EXCEPT !.program = <<program>>]
              msg == Message("Run", NilMac, U32(clock), <<program>>)
          IN /\ sent' = <<[to |-> device_state.address, msg |-> msg, key |-> device_state.secret]>>
             /\ server' = IF send_ok
                          THEN [server EXCEPT !.devices = Put(@, device_address, device_state)]
                          ELSE server
     ELSE /\ sent' = <<>>
          /\ server' = server
  /\ UNCHANGED <<compilerVars, vmVars, clock, codecVars, authenticated, threads, clientVars>>

\* ------------------------------------------ the server state under its mutex
\* Mutex::lock returns once no thread holds the mutex; the unguarded one
\* returns at once.
Mutex_lock_unguarded(holder) == TRUE
Mutex_lock(holder) == holder = "free"

\* Datagrams of the device MacA: a Ping and a frame of type 2, signed with
\* either secret.
LockDatagrams == {Frame(MacA, U32(7), t, <<>>, key) : t \in {1, 2}, key \in Secrets}

\* Server::new and the start of Server::run; no API call is in progress.
LockStart ==
  \E config \in Configs :
    /\ server = [status |-> "running", config |-> config, devices |-> <<>>]
    /\ inbox = NoInput
    /\ sent = <<>>
    /\ authenticated = {}
    /\ threads = [NoThreads EXCEPT !.server.pc = "recv"]

ThreadSecret == secret_for(server.config, peek_mac_address(threads.server.buf).v, "secret")
ThreadMac == peek_mac_address(threads.server.buf).v

\* socket.recv_from.
ServerRecv(buf, source_address) ==
  /\ server.status = "running"
  /\ threads.server.pc = "recv"
  /\ threads.server.handled < MaxDeliveries
  /\ threads' = [threads EXCEPT !.server.pc = "config", !.server.buf = buf,
                                !.server.source = source_address]
  /\ UNCHANGED <<compilerVars, vmVars, clock, codecVars, server, inbox, sent, authenticated,
                 clientVars>>

\* peek_mac_address and the look-up of the device's configuration, for which
\* the mutex is taken and released.
ServerConfig ==
  /\ threads.server.pc = "config"
  /\ ~peek_mac_address(threads.server.buf).ok \/ Mutex_lock(threads.lock)
  /\ threads' = IF peek_mac_address(threads.server.buf).ok
                THEN [threads EXCEPT !.server.pc = "decode"]
                ELSE [threads EXCEPT !.server.pc = "recv", !.server.handled = @ + 1]
  /\ UNCHANGED <<compilerVars, vmVars, clock, codecVars, server, inbox, sent, authenticated,
                 clientVars>>

\* Message::from_buffer with the device's secret.
ServerDecode ==
  /\ threads.server.pc = "decode"
  /\ LET r == from_buffer(threads.server.buf, ThreadSecret) IN
     /\ threads' = IF r.err = Panic THEN [threads EXCEPT !.server.pc = "panicked"]
                   ELSE IF ~r.ok
                   THEN [threads EXCEPT !.server.pc = "recv", !.server.handled = @ + 1]
                   ELSE [threads EXCEPT !.server.pc = "lock"]
     /\ server' = IF r.err = Panic THEN [server EXCEPT !.status = "panicked"] ELSE server
     /\ authenticated' = IF r.ok THEN authenticated \cup {ThreadMac} ELSE authenticated
  /\ UNCHANGED <<compilerVars, vmVars, clock, codecVars, inbox, sent, clientVars>>

\* `let mut m = self.state.lock().unwrap()`.
ServerLock ==
  /\ threads.server.pc = "lock"
  /\ Mutex_lock(threads.lock)
  /\ threads' = [threads EXCEPT !.lock = "server", !.server.pc = "read"]
  /\ UNCHANGED <<compilerVars, vmVars, clock, codecVars, server, inbox, sent, authenticated,
                 clientVars>>

\* The copy of the device's entry, or a new entry, with last_seen set.
NewStatus(seen, source_address, secret, now) ==
  [(IF seen # <<>> THEN seen[1]
    ELSE [address |-> source_address, program |-> <<>>, secret |-> secret, last_seen |-> now])
   EXCEPT !.last_seen = now]

EntryOf(devices, key) == IF key \in DOMAIN devices THEN <<devices[key]>> ELSE <<>>

\* The entry is read and copied, and the message answered: a Ping with a
\* Pong and a Run of the device's program, which the copy records.  A
\* program file that does not load panics with the mutex held: the guard is
\* dropped and the mutex is poisoned.
ServerRead(file) ==
  /\ threads.server.pc = "read"
  /\ LET msg == from_buffer(threads.server.buf, ThreadSecret).v
         seen == EntryOf(server.devices, ThreadMac)
         new_status == NewStatus(seen, threads.server.source, ThreadSecret, clock)
         pong == Message("Pong", NilMac, msg.unix_time, <<>>)
         p == device_program(new_status.program, server.config, ThreadMac, file,
                             DefaultProgram)
     IN
     IF msg.message_type # "Ping"
     THEN /\ threads' = [threads EXCEPT !.server.pc = "insert", !.server.seen = seen,
                                        !.server.new_status = <<new_status>>]
          /\ UNCHANGED <<server, sent>>
     ELSE IF ~from_buffer(signed(pong, ThreadSecret), ThreadSecret).ok \/ ~p.ok
     THEN /\ threads' = [threads EXCEPT !.server.pc = "panicked", !.lock = "free",
                                        !.poisoned = TRUE]
          /\ server' = [server EXCEPT !.status = "panicked"]
          /\ sent' = IF p.ok THEN <<>>
                     ELSE <<[to |-> threads.server.source, msg |-> pong, key |-> ThreadSecret]>>
     ELSE /\ threads' = [threads EXCEPT !.server.pc = "insert", !.server.seen = seen,
                           !.server.new_status = <<[new_status EXCEPT !.program = <<p.v>>]>>]
          /\ sent' = <<[to |-> threads.server.source, msg |-> pong, key |-> ThreadSecret],
                       [to |-> threads.server.source,
                        msg |-> Message("Run", NilMac, msg.unix_time, <<p.v>>),
                        key |-> ThreadSecret]>>
          /\ UNCHANGED server
  /\ UNCHANGED <<compilerVars, vmVars, clock, codecVars, inbox, authenticated, clientVars>>

\* `m.devices.insert(mac_identifier, new_status)`.
ServerInsert ==
  /\ threads.server.pc = "insert"
  /\ server' = [server EXCEPT !.devices = Put(@, ThreadMac, threads.server.new_status[1])]
  /\ threads' = [threads EXCEPT !.server.pc = "unlock",
                                !.server.written = <<threads.server.new_status[1].last_seen>>]
  /\ UNCHANGED <<compilerVars, vmVars, clock, codecVars, inbox, sent, authenticated, clientVars>>

\* The end of the block: the guard is dropped and the loop turns.
ServerUnlock ==
  /\ threads.server.pc = "unlock"
  /\ threads' = [threads EXCEPT !.lock = "free", !.server.pc = "recv",
                                !.server.handled = @ + 1]
  /\ UNCHANGED <<compilerVars, vmVars, clock, codecVars, server, inbox, sent, authenticated,
                 clientVars>>

\* A request for set_builtin_program arrives.
ApiCall(device_address, program_name) ==
  /\ threads.server.pc # "idle"
  /\ threads.api.pc = "idle"
  /\ threads' = [threads EXCEPT !.api.pc = "lock", !.api.device = device_address,
                                !.api.name = program_name]
  /\ UNCHANGED <<compilerVars, vmVars, clock, codecVars, server, inbox, sent, authenticated,
                 clientVars>>

\* `let mut s = state.lock().unwrap()`: a poisoned mutex panics the task.
ApiLock ==
  /\ threads.api.pc = "lock"
  /\ Mutex_lock(threads.lock)
  /\ threads' = IF threads.poisoned THEN [threads EXCEPT !.api.pc = "panicked"]
                ELSE [threads EXCEPT !.lock = "api", !.api.pc = "read"]
  /\ UNCHANGED <<compilerVars, vmVars, clock, codecVars, server, inbox, sent, authenticated,
                 clientVars>>

\* The device and the built-in program are looked up, the entry is copied
\* with the program set, and the Run is sent.
ApiRead(send_ok) ==
  /\ threads.api.pc = "read"
  /\ LET seen == EntryOf(server.devices, threads.api.device) IN
     IF seen = <<>> \/ threads.api.name \notin BuiltinNames
     THEN /\ threads' = [threads EXCEPT !.api.pc = "unlock", !.api.result = "NotFound"]
          /\ sent' = sent
     ELSE LET program == BUILTIN_PROGRAMS(threads.api.name)
              device_state == [seen[1] EXCEPT !.program = <<program>>]
          IN /\ sent' = <<[to |-> device_state.address,
                           msg |-> Message("Run", NilMac, U32(clock), <<program>>),
                           key |-> device_state.secret]>>
             /\ threads' = IF send_ok
                           THEN [threads EXCEPT !.api.pc = "insert", !.api.seen = seen,
                                                !.api.device_state = <<device_state>>]
                           ELSE [threads EXCEPT !.api.pc = "unlock",
                                                !.api.result = "NetworkError"]
  /\ UNCHANGED <<compilerVars, vmVars, clock, codecVars, server, inbox, authenticated, clientVars>>

\* `s.devices.insert(device_address, device_state)`.
ApiInsert ==
  /\ threads.api.pc = "insert"
  /\ server' = [server EXCEPT
                  !.devices = Put(@, threads.api.device, threads.api.device_state[1])]
  /\ threads' = [threads EXCEPT !.api.pc = "unlock", !.api.result = "Set"]
  /\ UNCHANGED <<compilerVars, vmVars, clock, codecVars, inbox, sent, authenticated, clientVars>>

\* The handler returns and its guard is dropped.
ApiUnlock ==
  /\ threads.api.pc = "unlock"
  /\ threads' = [threads EXCEPT !.lock = "free", !.api.pc = "done"]
  /\ UNCHANGED <<compilerVars, vmVars, clock, codecVars, server, inbox, sent, authenticated,
                 clientVars>>

\* ------------------------------------------------------ client operations
\* let instruction_limit_per_cycle = 1000 in the strip thread.
instruction_limit_per_cycle == 1000

\* Programs that loop without yielding, loop with a yield in every turn, end,
\* fail with an Error and abort.
LoopProgram == <<64, 0, 0>>
YieldProgram == <<254, 64, 0, 0>>
EndProgram == <<64, 200, 0>>
ErrorProgram == <<119>>
AbortProgram == <<1>>
ClientPrograms == {LoopProgram, YieldProgram, EndProgram, ErrorProgram, AbortProgram}

\* Payloads are sent behind nineteen bytes of padding.
Padding == [i \in 1..19 |-> 0]

\* Datagrams that reach the client: Run frames signed with its secret, a Run
\* frame signed with another secret, a Pong, and a buffer shorter than an HMAC.
ClientDatagrams ==
  {Frame(NilMac, U32(7), 4, Padding \o q, "secret") : q \in ClientPrograms}
  \cup {Frame(NilMac, U32(7), 4, Padding \o LoopProgram, "device"),
        Frame(NilMac, U32(7), 2, <<>>, "secret"),
        <<0, 0, 0>>}

InitialPrograms == {<<>>, <<LoopProgram>>}

\* Program::from_binary and Program::new: a program is its code.
Program_from_binary(data) == data
Program_new == <<>>

\* Client::run up to the loop of the strip thread: the channel is made, the
\* network thread is spawned, and the strip thread has `program` in hand or
\* waits for the first one.
ClientStart ==
  \E initial_program \in InitialPrograms :
    /\ client = [status |-> "running", program |-> initial_program,
                 pos |-> IF initial_program = <<>> THEN "recv" ELSE "start",
                 started |-> <<>>, taken |-> 0, initial |-> Len(initial_program)]
    /\ channel = <<>>
    /\ net = [status |-> "running", pos |-> "ping", received |-> 0, sent |-> <<>>,
              payloads |-> <<>>]

ClientIdle ==
  /\ client = [status |-> "idle", program |-> <<>>, pos |-> "recv", started |-> <<>>,
               taken |-> 0, initial |-> 0]
  /\ channel = <<>>
  /\ net = [status |-> "idle", pos |-> "ping", received |-> 0, sent |-> <<>>, payloads |-> <<>>]

\* The network thread sends its Ping, at its start and whenever the ping
\* interval has elapsed; a failure of send_to is logged and nothing else.
NetPing ==
  /\ client.status = "running"
  /\ net.status = "running"
  /\ net.pos = "ping"
  /\ net' = [net EXCEPT !.pos = "listen"]
  /\ UNCHANGED <<compilerVars, vmVars, clock, codecVars, serverVars, client, channel>>

\* The ping interval has elapsed: the inner loop is left, last_ping_time is
\* set and the outer loop starts over.
NetIntervalElapsed ==
  /\ client.status = "running"
  /\ net.status = "running"
  /\ net.pos = "listen"
  /\ net' = [net EXCEPT !.pos = "ping"]
  /\ UNCHANGED <<compilerVars, vmVars, clock, codecVars, serverVars, client, channel>>

\* The bytes a sender put behind the header of a frame.
SentPayload(buf) ==
  SubSeq(buf, MAC_SIZE + TIME_SIZE + MESSAGE_TYPE_SIZE + 1, Len(buf) - SHA1_SIZE)

\* The network thread receives a datagram: from_buffer with the secret of the
\* client, and tx.send of the program of a Run message.  `payloads` keeps
\* what the senders of those Run messages had put in them.
NetReceive(buf) ==
  /\ client.status = "running"
  /\ net.status = "running"
  /\ net.pos = "listen"
  /\ net.received < MaxDeliveries
  /\ LET r == from_buffer(buf, "secret") IN
     IF r.err = Panic
     THEN /\ net' = [net EXCEPT !.status = "panicked", !.received = @ + 1]
          /\ channel' = channel
     ELSE IF r.ok /\ r.v.message_type = "Run"
     THEN LET p == IF r.v.payload # <<>> THEN Program_from_binary(r.v.payload[1])
                   ELSE Program_new
          IN /\ net' = [net EXCEPT !.received = @ + 1, !.sent = Append(@, p),
                                   !.payloads = Append(@, SentPayload(buf))]
             /\ channel' = Append(channel, p)
     ELSE /\ net' = [net EXCEPT !.received = @ + 1]
          /\ channel' = channel
  /\ UNCHANGED <<compilerVars, vmVars, clock, codecVars, serverVars, client>>

\* program = Some(rx.recv().unwrap()): the strip thread blocks until a program
\* is in the channel; recv fails, and unwrap aborts, when the channel is empty
\* and the network thread has gone.
StripRecv ==
  /\ client.status = "running"
  /\ client.pos = "recv"
  /\ IF channel # <<>>
     THEN /\ client' = [client EXCEPT !.program = <<Head(channel)>>, !.pos = "start",
                                      !.taken = @ + 1]
          /\ channel' = Tail(channel)
     ELSE /\ net.status = "panicked"
          /\ client' = [client EXCEPT !.status = "panicked"]
          /\ channel' = channel
  /\ UNCHANGED <<compilerVars, vmVars, clock, codecVars, serverVars, net>>

\* let mut state = self.vm.start(p.unwrap(), None).
StripStart ==
  /\ client.status = "running"
  /\ client.pos = "start"
  /\ state' = start(client.program[1], NoLimit)
  /\ client' = [client EXCEPT !.program = <<>>, !.pos = "call",
                              !.started = Append(@, client.program[1])]
  /\ UNCHANGED <<compilerVars, vm, call, strip_log, clock, codecVars, serverVars, channel, net>>

\* let outcome = state.run(Some(instruction_limit_per_cycle)): the call is
\* entered.
StripRunCall ==
  /\ client.status = "running"
  /\ client.pos = "call"
  /\ call' = [active |-> TRUE, limit |-> Some(instruction_limit_per_cycle), lc |-> 0,
              outcome |-> None, dispatched |-> 0, resumed |-> FALSE]
  /\ client' = [client EXCEPT !.pos = "run"]
  /\ UNCHANGED <<compilerVars, vm, state, strip_log, clock, codecVars, serverVars, channel, net>>

Min(a, b) == IF a < b THEN a ELSE b

\* One turn of the loop of State::run in the strip thread.  The State has no
\* instruction limit and the VM is not deterministic, so instruction_count is
\* never read: it is kept up to MaxCount.  An abort in the strip thread, which
\* is the main thread, ends the process.
StripRunStep ==
  /\ client.status = "running"
  /\ client.pos = "run"
  /\ call.active
  /\ LET it == RunIter(vm, state, call.lc, call.limit, clock) IN
     /\ vm' = it.res.vm
     /\ state' = [it.res.st EXCEPT !.instruction_count = Min(@, MaxCount)]
     /\ strip_log' = strip_log \o it.res.eff
     /\ call' = [call EXCEPT !.lc = it.lc,
                             !.dispatched = IF it.ran THEN @ + 1 ELSE @,
                             !.outcome = it.res.out,
                             !.active = (it.res.out = None)]
     /\ client' = IF it.res.out = None THEN client
                  ELSE IF it.res.out = Panic THEN [client EXCEPT !.status = "panicked"]
                  ELSE [client EXCEPT !.pos = "poll"]
  /\ UNCHANGED <<compilerVars, clock, codecVars, serverVars, channel, net>>

\* rx.try_recv() after the call has returned, and the match on the outcome
\* when the channel is empty.
StripPoll ==
  /\ client.status = "running"
  /\ client.pos = "poll"
  /\ IF channel # <<>>
     THEN /\ client' = [client EXCEPT !.program = <<Head(channel)>>, !.pos = "start",
                                      !.taken = @ + 1]
          /\ channel' = Tail(channel)
     ELSE /\ client' = [client EXCEPT !.pos =
                          IF call.outcome \in {"LocalInstructionLimitReached", "Yielded"}
                          THEN "call" ELSE "recv"]
          /\ channel' = channel
  /\ UNCHANGED <<compilerVars, vmVars, clock, codecVars, serverVars, net>>

StripThread == StripRecv \/ StripStart \/ StripRunCall \/ StripRunStep \/ StripPoll

\* ---------------------------------------------------------------- assembler
\* `prefix as u8`, `u as u8`: the discriminants of the instruction enums.
Prefix_u8(prefix) ==
  CASE prefix = "POP" -> 0
    [] prefix = "PUSHB" -> 16
    [] prefix = "PEEK" -> 32
    [] prefix = "PUSHI" -> 48
    [] prefix = "JMP" -> 64
    [] prefix = "JZ" -> 80
    [] prefix = "JNZ" -> 96
    [] prefix = "UNARY" -> 112
    [] prefix = "BINARY" -> 128
    [] prefix = "USER" -> 224
    [] prefix = "SPECIAL" -> 240

Unary_u8(u) == CHOOSE c \in 0..5 : Unary_from(c) = u
Binary_u8(u) == CHOOSE c \in 0..15 : Binary_from(c) = u
UserCommand_u8(u) == CHOOSE c \in 0..6 : UserCommand_from(c) = u
Special_u8(u) == CHOOSE c \in 12..15 : Special_from(c) = u

\* The struct Program of the assembler: the code written so far, the
\* predicted stack delta and the address the code will start at.  `abort` is
\* the message of the panic that ended the assembly, or "None".  `jumps` is
\* kept for the properties only: for every jump written, the index in `code`
\* of its opcode (`at`) and of the instruction it is meant to reach (`to`);
\* so is `loads`, the indices in `code` of the PEEKs written for a Load.
ProgramStruct(code, stack_size, offset) ==
  [code |-> code, stack_size |-> stack_size, offset |-> offset, abort |-> None,
   jumps |-> {}, loads |-> {}]

\* The jumps of a fragment whose code is written at index k of another code.
Relocated(jumps, k) == {[at |-> j.at + k, to |-> j.to + k] : j \in jumps}
RelocatedLoads(loads, k) == {at + k : at \in loads}

Aborted(p, message) == IF p.abort = None THEN [p EXCEPT !.abort = message] ELSE p

\* Program::write.
Program_write(p, buffer) ==
  IF p.abort = None THEN [p EXCEPT !.code = @ \o buffer] ELSE p

\* Program::current_pc.
Program_current_pc(p) == p.offset + Len(p.code)

\* Program::pop.
Program_pop(p, n) ==
  IF n > 15 THEN Aborted(p, "cannot pop more than 15 stack items")
  ELSE Program_write([p EXCEPT !.stack_size = @ - n], <<Prefix_u8("POP") + n>>)

\* Program::peek.
Program_peek(p, n) ==
  IF n > 15 THEN Aborted(p, "cannot peek more than 15 stack items")
  ELSE Program_write([p EXCEPT !.stack_size = @ + 1], <<Prefix_u8("PEEK") + n>>)

\* Program::unary.
Program_unary(p, u) == Program_write(p, <<Prefix_u8("UNARY") + Unary_u8(u)>>)

\* Program::binary.
Program_binary(p, u) ==
  Program_write([p EXCEPT !.stack_size = @ - 1], <<Prefix_u8("BINARY") + Binary_u8(u)>>)

\* Program::special.
Program_special(p, u) ==
  Program_write([p EXCEPT !.stack_size = @ + 0], <<Prefix_u8("SPECIAL") + Special_u8(u)>>)

\* Program::leave_on_stack: the predicted stack size is taken down by n.
Program_leave_on_stack(p, n) == [p EXCEPT !.stack_size = @ - n]

\* Program::user: the predicted stack delta of each command.
Program_user(p, u) ==
  LET delta == CASE u = "GET_LENGTH" -> 1
                 [] u = "GET_PRECISE_TIME" -> 1
                 [] u = "GET_WALL_TIME" -> 1
                 [] u = "BLIT" -> 0
                 [] u = "SET_PIXEL" -> 0
                 [] u = "RANDOM_INT" -> 0
  IN Program_write([p EXCEPT !.stack_size = @ + delta], <<Prefix_u8("USER") + UserCommand_u8(u)>>)

\* Program::push of the u32 b.
Program_push(p, b) ==
  LET q == [p EXCEPT !.stack_size = @ + 1] IN
  IF b = Zero32 THEN Program_write(q, <<Prefix_u8("PUSHB")>>)
  ELSE IF b[2] = 0 /\ b[3] = 0 /\ b[4] = 0 THEN Program_write(q, <<Prefix_u8("PUSHB") + 1, b[1]>>)
  ELSE Program_write(q, <<Prefix_u8("PUSHI") + 1, b[1], b[2], b[3], b[4]>>)

\* The fragment a combinator hands to its builder.
Fragment(p) == ProgramStruct(<<>>, 0, Program_current_pc(p))

\* The jump operand: the low and the high byte of an address.
AddressBytes(address) == <<address % 256, (address \div 256) % 256>>

\* Program::skip once the builder has filled `fragment`.
Program_skip(p, prefix, fragment) ==
  IF fragment.abort # None THEN Aborted(p, fragment.abort)
  ELSE IF fragment.stack_size # 0 THEN Aborted(p, "fragment in branch cannot modify stack size")
  ELSE LET address == Program_current_pc(p) + 3 + Len(fragment.code) IN
       [Program_write(Program_write(p, <<Prefix_u8(prefix)>> \o AddressBytes(address)),
                      fragment.code)
          EXCEPT !.loads = @ \cup RelocatedLoads(fragment.loads, Len(p.code) + 3),
                 !.jumps = @ \cup Relocated(fragment.jumps, Len(p.code) + 3)
                             \cup {[at |-> Len(p.code),
                                    to |-> Len(p.code) + 3 + Len(fragment.code)]}]

\* Program::if_zero.
Program_if_zero(p, fragment) == Program_skip(p, "JNZ", fragment)

\* Program::if_not_zero that skips the body when the value is not zero.
Program_if_not_zero_inverted(p, fragment) == Program_skip(p, "JNZ", fragment)

\* Program::if_not_zero.
Program_if_not_zero(p, fragment) == Program_skip(p, "JZ", fragment)

\* Program::repeat_forever once the builder has filled `fragment`.
Program_repeat_forever(p, fragment) ==
  IF fragment.abort # None THEN Aborted(p, fragment.abort)
  ELSE IF fragment.stack_size # 0 THEN Aborted(p, "fragment in loop cannot modify stack size")
  ELSE LET start_pc == Program_current_pc(p) IN
       [Program_write(Program_write(p, fragment.code),
                      <<Prefix_u8("JMP")>> \o AddressBytes(start_pc))
          EXCEPT !.loads = @ \cup RelocatedLoads(fragment.loads, Len(p.code)),
                 !.jumps = @ \cup Relocated(fragment.jumps, Len(p.code))
                             \cup {[at |-> Len(p.code) + Len(fragment.code),
                                    to |-> Len(p.code)]}]

\* Program::repeat once the builder has filled `fragment`.
Program_repeat(p, fragment) ==
  IF fragment.abort # None THEN Aborted(p, fragment.abort)
  ELSE IF fragment.stack_size # 0 THEN Aborted(p, "fragment in loop cannot modify stack size")
  ELSE LET start_pc == Program_current_pc(p) IN
       [Program_write(Program_write(Program_write(p, fragment.code),
                                    <<Prefix_u8("UNARY") + Unary_u8("DEC")>>),
                      <<Prefix_u8("JNZ")>> \o AddressBytes(start_pc))
          EXCEPT !.loads = @ \cup RelocatedLoads(fragment.loads, Len(p.code)),
                 !.jumps = @ \cup Relocated(fragment.jumps, Len(p.code))
                             \cup {[at |-> Len(p.code) + Len(fragment.code) + 1,
                                    to |-> Len(p.code)]}]

\* ------------------------------------------------------------ AST and scope
\* The values of Expression and Node, as records tagged by their variant.
Literal(u) == [e |-> "Literal", v |-> U32(u)]
UnaryE(op, rhs) == [e |-> "Unary", op |-> op, rhs |-> rhs]
BinaryE(lhs, op, rhs) == [e |-> "Binary", lhs |-> lhs, op |-> op, rhs |-> rhs]
UserE(s) == [e |-> "User", s |-> s]
UserCallE(s, args) == [e |-> "UserCall", s |-> s, args |-> args]
LoadE(name) == [e |-> "Load", name |-> name]
ClampE(value, min, max) == [e |-> "Clamp", value |-> value, min |-> min, max |-> max]

ExpressionN(e) == [n |-> "Expression", e |-> e]
SpecialN(s) == [n |-> "Special", s |-> s]
UserN(s) == [n |-> "User", s |-> s]
UserCallN(s, args) == [n |-> "UserCall", s |-> s, args |-> args]
StatementsN(stmts) == [n |-> "Statements", stmts |-> stmts]
LoopN(stmts) == [n |-> "Loop", stmts |-> stmts]
ForN(name, e, stmts) == [n |-> "For", name |-> name, e |-> e, stmts |-> stmts]
IfN(e, stmts) == [n |-> "If", e |-> e, stmts |-> stmts]
IfElseN(e, if_statements, else_statements) ==
  [n |-> "IfElse", e |-> e, if_statements |-> if_statements, else_statements |-> else_statements]
AssignmentN(name, e) == [n |-> "Assignment", name |-> name, e |-> e]

\* Option<u32> of the compiler, and the panic an arithmetic operation ends in.
SomeC(v) == [k |-> "Some", v |-> v]
NoneC == [k |-> "None", v |-> Zero32]
PanicC == [k |-> "Panic", v |-> Zero32]

\* Expression::const_value for Binary with both sides constant.  Dividing by
\* a constant zero panics; so does shifting by 32 bits or more where the
\* build checks arithmetic overflow.
const_binary(lhc, op, rhc) ==
  CASE op = "ADD" -> SomeC(wrapping_add(lhc, rhc))
    [] op = "SUB" -> SomeC(wrapping_sub(lhc, rhc))
    [] op = "DIV" -> IF rhc = Zero32 THEN PanicC ELSE SomeC(DivMod(lhc, rhc).q)
    [] op = "MUL" -> SomeC(wrapping_mul(lhc, rhc))
    [] op = "MOD" -> IF rhc = Zero32 THEN PanicC ELSE SomeC(DivMod(lhc, rhc).r)
    [] op = "EQ" -> SomeC(Bool32(lhc = rhc))
    [] op = "NEQ" -> SomeC(Bool32(lhc # rhc))
    [] op = "LT" -> SomeC(Bool32(Lt32(lhc, rhc)))
    [] op = "LTE" -> SomeC(Bool32(~Lt32(rhc, lhc)))
    [] op = "GT" -> SomeC(Bool32(Lt32(rhc, lhc)))
    [] op = "GTE" -> SomeC(Bool32(~Lt32(lhc, rhc)))
    [] op = "OR" -> SomeC(Or32(lhc, rhc))
    [] op = "XOR" -> SomeC(Xor32(lhc, rhc))
    [] op = "AND" -> SomeC(And32(lhc, rhc))
    [] op = "SHL" -> IF IsSmall(rhc) /\ ToNat(rhc) < 32 THEN SomeC(ShlBits(lhc, ToNat(rhc)))
                     ELSE PanicC
    [] op = "SHR" -> IF IsSmall(rhc) /\ ToNat(rhc) < 32 THEN SomeC(ShrBits(lhc, ToNat(rhc)))
                     ELSE PanicC

\* Expression::const_value for Unary with a constant operand: SHR8 folds to
\* `c << 8` as SHL8 does.
const_unary(op, c) ==
  CASE op = "INC" -> SomeC(wrapping_add(c, One32))
    [] op = "DEC" -> SomeC(wrapping_sub(c, One32))
    [] op = "NOT" -> SomeC(Not32(c))
    [] op = "NEG" -> NoneC
    [] op = "SHL8" -> SomeC(Shl8(c))
    [] op = "SHR8" -> SomeC(Shl8(c))

\* The Clamp arm of Expression::const_value: the value raised to the minimum,
\* then lowered to the maximum.
const_clamp(c_value, c_min, c_max) ==
  LET result == IF Lt32(c_value, c_min) THEN c_min ELSE c_value
  IN IF Lt32(c_max, result) THEN c_max ELSE result

\* Expression::const_value.
RECURSIVE const_value(_)
const_value(e) ==
  CASE e.e = "Literal" -> SomeC(e.v)
    [] e.e \in {"UserCall", "User", "Load"} -> NoneC
    [] e.e = "Binary" ->
         LET lhc == const_value(e.lhs)
             rhc == const_value(e.rhs)
         IN IF lhc.k = "Panic" \/ (lhc.k = "Some" /\ rhc.k = "Panic") THEN PanicC
            ELSE IF lhc.k = "Some" /\ rhc.k = "Some" THEN const_binary(lhc.v, e.op, rhc.v)
            ELSE NoneC
    [] e.e = "Unary" ->
         LET c == const_value(e.rhs) IN
         IF c.k = "Some" THEN const_unary(e.op, c.v) ELSE c
    [] e.e = "Clamp" ->
         LET c_value == const_value(e.value)
             c_min == const_value(e.min)
             c_max == const_value(e.max)
         IN IF "Panic" \in {c_value.k, c_min.k, c_max.k} THEN PanicC
            ELSE IF c_value.k = "Some" /\ c_min.k = "Some" /\ c_max.k = "Some"
            THEN SomeC(const_clamp(c_value.v, c_min.v, c_max.v))
            ELSE NoneC

\* Scope::new and Scope::nest.  `parent` is <<>> or holds the parent scope.
Scope_new == [variables |-> <<>>, level |-> 0, parent |-> <<>>]
Scope_nest(scope) == [variables |-> <<>>, level |-> 0, parent |-> <<scope>>]

\* The position of a name in a Vec<String>, counted from 0, or -1.
Position(variables, name) ==
  IF \E i \in 1..Len(variables) : variables[i] = name
  THEN (CHOOSE i \in 1..Len(variables) :
          variables[i] = name /\ \A j \in 1..(i - 1) : variables[j] # name) - 1
  ELSE -1

\* Scope::index_of: -1 for None.
RECURSIVE Scope_index_of(_, _)
Scope_index_of(scope, variable_name) ==
  LET i == Position(scope.variables, variable_name) IN
  IF i >= 0 THEN scope.level - 1 - i
  ELSE IF scope.parent # <<>>
  THEN LET p_index == Scope_index_of(scope.parent[1], variable_name) IN
       IF p_index >= 0 THEN p_index + scope.level ELSE -1
  ELSE -1

\* Program and Scope as a call of assemble leaves them; once the assembly has
\* panicked (p.abort is set) no later call changes them.
Asm(p, scope) == [p |-> p, scope |-> scope]

\* Scope::define_variable.
Scope_define_variable(a, variable_name) ==
  IF a.p.abort # None THEN a
  ELSE IF Position(a.scope.variables, variable_name) >= 0
  THEN Asm(Aborted(a.p, "variable already defined"), a.scope)
  ELSE Asm(a.p, [a.scope EXCEPT !.variables = Append(@, variable_name)])

\* Scope::undefine_variable.
Scope_undefine_variable(a, variable_name) ==
  LET i == Position(a.scope.variables, variable_name) IN
  IF a.p.abort # None THEN a
  ELSE IF i < 0 THEN Asm(Aborted(a.p, "variable was not defined"), a.scope)
  ELSE Asm(a.p, [a.scope EXCEPT !.variables =
                   SubSeq(@, 1, i) \o SubSeq(@, i + 2, Len(@))])

\* Scope::assemble_teardown.
Scope_assemble_teardown(scope, p) ==
  IF p.abort = None /\ scope.variables # <<>> THEN Program_pop(p, Len(scope.variables)) ELSE p

\* Scope::unnest: the program after the teardown of a child scope.
Scope_unnest(scope, p) ==
  IF scope.parent = <<>> THEN Aborted(p, "cannot unnest scope without parent")
  ELSE Scope_assemble_teardown(scope, p)

\* ----------------------------------------------------------------- lowering
\* `wrapped` of the SET_PIXEL arm: the parameter shifted left by 8 bits, times times.
Shifted_once(wrapped, times) ==
  IF times = 0 THEN wrapped ELSE UnaryE("SHL8", wrapped)

RECURSIVE Shifted(_, _)
Shifted(wrapped, times) ==
  IF times = 0 THEN wrapped ELSE Shifted(UnaryE("SHL8", wrapped), times - 1)

\* `color_expression` of the SET_PIXEL arm after the parameters n.. of e
\* (counted from 0) have been or-ed in.
RECURSIVE ColorExpression(_, _, _)
ColorExpression(e, n, color_expression) ==
  IF n >= Len(e) THEN color_expression
  ELSE ColorExpression(e, n + 1,
         IF n > 1
         THEN BinaryE(color_expression, "OR",
                      Shifted(BinaryE(e[n + 1], "AND", Literal(255)), n - 1))
         ELSE color_expression)

\* `scope.level = level` and `scope.level += d` after the calls that gave a.
WithLevel(a, level) == Asm(a.p, [a.scope EXCEPT !.level = level])
AddLevel(a, d) == Asm(a.p, [a.scope EXCEPT !.level = @ + d])

\* The calls of the assembler on `program` in Expression::assemble and
\* Node::assemble; nothing is called once the assembly has panicked.
Emit_push(a, c) == IF a.p.abort # None THEN a ELSE Asm(Program_push(a.p, c), a.scope)
Emit_pop(a, n) == IF a.p.abort # None THEN a ELSE Asm(Program_pop(a.p, n), a.scope)
Emit_peek(a, n) == IF a.p.abort # None THEN a ELSE Asm(Program_peek(a.p, n), a.scope)
Emit_load(a, n) ==
  IF a.p.abort # None THEN a
  ELSE Asm([Program_peek(a.p, n) EXCEPT !.loads = @ \cup {Len(a.p.code)}], a.scope)
Emit_unary(a, op) == IF a.p.abort # None THEN a ELSE Asm(Program_unary(a.p, op), a.scope)
Emit_binary(a, op) == IF a.p.abort # None THEN a ELSE Asm(Program_binary(a.p, op), a.scope)
Emit_user(a, s) == IF a.p.abort # None THEN a ELSE Asm(Program_user(a.p, s), a.scope)
Emit_special(a, s) == IF a.p.abort # None THEN a ELSE Asm(Program_special(a.p, s), a.scope)
Panicked(a, message) == Asm(Aborted(a.p, message), a.scope)

RECURSIVE Expression_assemble(_, _)
RECURSIVE Expression_assemble_all(_, _)
RECURSIVE Expression_assemble_variant(_, _, _)
RECURSIVE Node_assemble(_, _)
RECURSIVE Node_assemble_all(_, _)
RECURSIVE Body(_, _, _)

\* The two branches of one bound of clamp: the branch taken when the
\* comparison is non-zero keeps the bound, the other keeps the value.
ClampTaken(q) ==
  Program_leave_on_stack(Program_pop(Program_special(Program_pop(q, 1), "SWAP"), 1), -2)
ClampNotTaken(q) == Program_leave_on_stack(Program_pop(q, 2), -2)
Emit_clamp_taken(a) ==
  IF a.p.abort # None THEN a
  ELSE Asm(Program_if_not_zero(a.p, ClampTaken(Fragment(a.p))), a.scope)
Emit_clamp_not_taken(a) ==
  IF a.p.abort # None THEN a
  ELSE Asm(Program_if_zero(a.p, ClampNotTaken(Fragment(a.p))), a.scope)
Emit_leave_on_stack(a, n) ==
  IF a.p.abort # None THEN a ELSE Asm(Program_leave_on_stack(a.p, n), a.scope)

\* One bound of the Clamp arm of Expression::assemble: the value and the
\* bound are compared (op is LT for the minimum, GT for the maximum).
ClampBound(a, op) ==
  Emit_leave_on_stack(
    Emit_clamp_not_taken(Emit_clamp_taken(Emit_binary(Emit_peek(Emit_peek(a, 1), 1), op))),
    2)

\* `for param in e.iter() { param.assemble(program, scope) }`.
Expression_assemble_all(e, a) ==
  IF e = <<>> \/ a.p.abort # None THEN a
  ELSE Expression_assemble_all(Tail(e), Expression_assemble(e[1], a))

\* Expression::assemble, where c is self.const_value(): the constant is
\* pushed, or the expression is lowered by its variant.
Expression_assemble_variant(c, e, a) ==
  IF c.k = "Panic" THEN Panicked(a, "attempt to divide by zero")
  ELSE IF c.k = "Some" THEN AddLevel(Emit_push(a, c.v), 1)
  ELSE CASE e.e = "User" -> AddLevel(Emit_user(a, e.s), 1)
         [] e.e = "UserCall" ->
              WithLevel(Emit_user(Expression_assemble_all(e.args, a), e.s), a.scope.level + 1)
         [] e.e = "Unary" -> Emit_unary(Expression_assemble(e.rhs, a), e.op)
         [] e.e = "Binary" ->
              AddLevel(Emit_binary(Expression_assemble(e.rhs, Expression_assemble(e.lhs, a)),
                                   e.op), -1)
         [] e.e = "Load" ->
              IF Scope_index_of(a.scope, e.name) >= 0
              THEN AddLevel(Emit_load(a, Scope_index_of(a.scope, e.name)), 1)
              ELSE Panicked(a, "variable not found")
         [] e.e = "Clamp" ->
              WithLevel(
                ClampBound(
                  Expression_assemble(
                    e.max,
                    ClampBound(Expression_assemble(e.min, Expression_assemble(e.value, a)),
                               "LT")),
                  "GT"),
                a.scope.level + 1)

\* Expression::assemble, for the expressions the grammar produces.
Expression_assemble(e, a) ==
  IF a.p.abort # None THEN a ELSE Expression_assemble_variant(const_value(e), e, a)

\* `for i in stmts.iter() { i.assemble(program, scope) }`.
Node_assemble_all(stmts, a) ==
  IF stmts = <<>> \/ a.p.abort # None THEN a
  ELSE Node_assemble_all(Tail(stmts), Node_assemble(stmts[1], a))

\* What the builder closure of Loop, For, If and IfElse leaves of the
\* fragment q: the statements assembled in a child scope, which is unnested.
Unnested(a) == Scope_unnest(a.scope, a.p)
Body(q, scope, stmts) == Unnested(Node_assemble_all(stmts, Asm(q, Scope_nest(scope))))

\* The combinators called with that closure.
Emit_repeat_forever(a, stmts) ==
  Asm(Program_repeat_forever(a.p, Body(Fragment(a.p), a.scope, stmts)), a.scope)
Emit_repeat(a, stmts) ==
  Asm(Program_repeat(a.p, Body(Fragment(a.p), a.scope, stmts)), a.scope)
Emit_if_not_zero(a, stmts) ==
  Asm(Program_if_not_zero(a.p, Body(Fragment(a.p), a.scope, stmts)), a.scope)
Emit_if_zero(a, stmts) ==
  Asm(Program_if_zero(a.p, Body(Fragment(a.p), a.scope, stmts)), a.scope)

\* The SET_PIXEL arm of Node::assemble: the index, then the colour one level up.
SetPixelArguments(e, a) ==
  IF Len(e) < 2 THEN Panicked(a, "index out of bounds")
  ELSE WithLevel(
         Expression_assemble(
           ColorExpression(e, 0, BinaryE(e[2], "AND", Literal(255))),
           WithLevel(Expression_assemble(e[1], a), a.scope.level + 1)),
         a.scope.level)

\* Node::assemble.
Node_assemble(node, a) ==
  IF a.p.abort # None THEN a ELSE
  CASE node.n = "Expression" -> AddLevel(Emit_pop(Expression_assemble(node.e, a), 1), -1)
    [] node.n = "Special" -> Emit_special(a, node.s)
    [] node.n = "User" -> Emit_user(a, node.s)
    [] node.n = "UserCall" ->
         Emit_pop(Emit_user(IF node.s = "SET_PIXEL" THEN SetPixelArguments(node.args, a)
                            ELSE Expression_assemble_all(node.args, a), node.s), 1)
    [] node.n = "Statements" -> Node_assemble_all(node.stmts, a)
    [] node.n = "Loop" -> Emit_repeat_forever(a, node.stmts)
    [] node.n = "For" ->
         AddLevel(Emit_pop(
           Scope_undefine_variable(
             Emit_repeat(Scope_define_variable(Expression_assemble(node.e, a), node.name),
                         node.stmts),
             node.name), 1), -1)
    [] node.n = "If" ->
         WithLevel(Emit_pop(Emit_if_not_zero(Expression_assemble(node.e, a), node.stmts), 1),
                   a.scope.level)
    [] node.n = "IfElse" ->
         WithLevel(Emit_pop(Emit_if_zero(Emit_if_not_zero(Expression_assemble(node.e, a),
                                                          node.if_statements),
                                         node.else_statements), 1),
                   a.scope.level)
    [] node.n = "Assignment" ->
         Scope_define_variable(Expression_assemble(node.e, a), node.name)

\* parse, from the Node and the remainder the grammar yields for the source.
Teardown(a) == Scope_assemble_teardown(a.scope, a.p)
parse(remainder, n) ==
  IF remainder # "" THEN Err("Could not parse, remainder")
  ELSE Ok(Teardown(Node_assemble(n, Asm(ProgramStruct(<<>>, 0, 0), Scope_new))))

\* ------------------------------------------------------- compiler operations
\* The longest run of a compiled program that is followed.
MaxSteps == 20

\* The statement `blit`.
Blit == UserN("BLIT")

\* Sources, each with the remainder and the Node the grammar yields for it.
Source(name) ==
  CASE name = "loop_if_yield" ->
         \* loop { if(1+2*3>4) { yield }; dump }
         [remainder |-> "",
          node |-> StatementsN(<<LoopN(<<
            IfN(BinaryE(BinaryE(Literal(1), "ADD", BinaryE(Literal(2), "MUL", Literal(3))),
                        "GT", Literal(4)),
                <<SpecialN("YIELD")>>),
            SpecialN("DUMP")>>)>>)]
    [] name = "loop_set_pixel" ->
         \* loop { set_pixel(0, 1, 2, 3); blit; yield }
         [remainder |-> "",
          node |-> StatementsN(<<LoopN(<<
            UserCallN("SET_PIXEL", <<Literal(0), Literal(1), Literal(2), Literal(3)>>),
            Blit, SpecialN("YIELD")>>)>>)]
    [] name = "if_set_pixel" ->
         \* if(get_length) { set_pixel(get_length - 1, 255, 0, 0) }
         [remainder |-> "",
          node |-> StatementsN(<<IfN(UserE("GET_LENGTH"), <<
            UserCallN("SET_PIXEL", <<BinaryE(UserE("GET_LENGTH"), "SUB", Literal(1)),
                                     Literal(255), Literal(0), Literal(0)>>)>>)>>)]
    [] name = "set_pixel" ->
         \* set_pixel(1, 255, 256, 3); blit
         [remainder |-> "",
          node |-> StatementsN(<<
            UserCallN("SET_PIXEL", <<Literal(1), Literal(255), Literal(256), Literal(3)>>),
            Blit>>)]
    [] name = "set_pixel_one" ->
         \* set_pixel(1)
         [remainder |-> "",
          node |-> StatementsN(<<UserCallN("SET_PIXEL", <<Literal(1)>>)>>)]
    [] name = "nested_if" ->
         \* if(1) { if(0) { a = 0x10100000 } }
         [remainder |-> "",
          node |-> StatementsN(<<IfN(Literal(1), <<
            IfN(Literal(0), <<AssignmentN("a", [e |-> "Literal", v |-> <<0, 0, 16, 16>>])>>)>>)>>)]
    [] name = "padded_nested_if" ->
         \* 300; 1; if(1) { if(0) { blit } }
         [remainder |-> "",
          node |-> StatementsN(<<ExpressionN(Literal(300)), ExpressionN(Literal(1)),
            IfN(Literal(1), <<IfN(Literal(0), <<Blit>>)>>)>>)]
    [] name = "for_assign" ->
         \* a = 2; for(i = a) { b = i + a; blit }; yield
         [remainder |-> "",
          node |-> StatementsN(<<AssignmentN("a", Literal(2)),
            ForN("i", LoadE("a"),
                 <<AssignmentN("b", BinaryE(LoadE("i"), "ADD", LoadE("a"))), Blit>>),
            SpecialN("YIELD")>>)]
    [] name = "if_else" ->
         \* if(get_length > 1) { blit } else { dump }; random(3)
         [remainder |-> "",
          node |-> StatementsN(<<
            IfElseN(BinaryE(UserE("GET_LENGTH"), "GT", Literal(1)), <<Blit>>, <<SpecialN("DUMP")>>),
            ExpressionN(UserCallE("RANDOM_INT", <<Literal(3)>>))>>)]
    [] name = "if_else_blits" ->
         \* if(get_length - 2) { blit } else { blit; blit }
         [remainder |-> "",
          node |-> StatementsN(<<
            IfElseN(BinaryE(UserE("GET_LENGTH"), "SUB", Literal(2)), <<Blit>>, <<Blit, Blit>>)>>)]
    [] name = "if_else_nested" ->
         \* if(get_length - 2) { blit; if(0) { blit; blit } } else { blit; blit; blit }
         [remainder |-> "",
          node |-> StatementsN(<<
            IfElseN(BinaryE(UserE("GET_LENGTH"), "SUB", Literal(2)),
                    <<Blit, IfN(Literal(0), <<Blit, Blit>>)>>,
                    <<Blit, Blit, Blit>>)>>)]
    [] name = "for_if" ->
         \* for(i = 2) { if(i == 1) { x = -i; yield } }
         [remainder |-> "",
          node |-> StatementsN(<<ForN("i", Literal(2), <<
            IfN(BinaryE(LoadE("i"), "EQ", Literal(1)),
                <<AssignmentN("x", UnaryE("NEG", LoadE("i"))), SpecialN("YIELD")>>)>>)>>)]
    [] name = "expressions" ->
         \* 1 << 8; !0; get_precise_time; a = 7 % 4; a
         [remainder |-> "",
          node |-> StatementsN(<<ExpressionN(UnaryE("SHL8", Literal(1))),
            ExpressionN(UnaryE("NOT", Literal(0))),
            ExpressionN(UserE("GET_PRECISE_TIME")),
            AssignmentN("a", BinaryE(Literal(7), "MOD", Literal(4))),
            ExpressionN(LoadE("a"))>>)]
    [] name = "redefined" ->
         \* a = 1; a = 2
         [remainder |-> "",
          node |-> StatementsN(<<AssignmentN("a", Literal(1)), AssignmentN("a", Literal(2))>>)]
    [] name = "division_by_zero" ->
         \* x = 1 / 0
         [remainder |-> "",
          node |-> StatementsN(<<AssignmentN("x", BinaryE(Literal(1), "DIV", Literal(0)))>>)]
    [] name = "undefined_variable" ->
         \* blit; b
         [remainder |-> "", node |-> StatementsN(<<Blit, ExpressionN(LoadE("b"))>>)]
    [] name = "remainder" ->
         \* blit }
         [remainder |-> "}", node |-> StatementsN(<<Blit>>)]
    [] name = "counter" ->
         \* counter=0; loop { counter = (counter+1) % get_length;
         \*   for(i=get_length) { if(i<=counter) { set_pixel(i-1, 0xFF, 0, 0) }
         \*                       else { set_pixel(i-1, 0, 0xFF, 0) } }; blit; yield }
         [remainder |-> "",
          node |-> StatementsN(<<AssignmentN("counter", Literal(0)), LoopN(<<
            AssignmentN("counter", BinaryE(BinaryE(LoadE("counter"), "ADD", Literal(1)),
                                           "MOD", UserE("GET_LENGTH"))),
            ForN("i", UserE("GET_LENGTH"), <<
              IfElseN(BinaryE(LoadE("i"), "LTE", LoadE("counter")),
                <<UserCallN("SET_PIXEL", <<BinaryE(LoadE("i"), "SUB", Literal(1)),
                                           Literal(255), Literal(0), Literal(0)>>)>>,
                <<UserCallN("SET_PIXEL", <<BinaryE(LoadE("i"), "SUB", Literal(1)),
                                           Literal(0), Literal(255), Literal(0)>>)>>)>>),
            Blit, SpecialN("YIELD")>>)>>)]
    [] name = "clamp_between" ->
         \* x = clamp(get_length, 3, 5); yield
         [remainder |-> "",
          node |-> StatementsN(<<
            AssignmentN("x", ClampE(UserE("GET_LENGTH"), Literal(3), Literal(5))),
            SpecialN("YIELD")>>)]
    [] name = "clamp_to_zero" ->
         \* x = clamp(get_length, 0, 0); yield
         [remainder |-> "",
          node |-> StatementsN(<<
            AssignmentN("x", ClampE(UserE("GET_LENGTH"), Literal(0), Literal(0))),
            SpecialN("YIELD")>>)]
    [] name = "clamp_to_variable" ->
         \* m = 3; x = clamp(get_length, 1, m); yield
         [remainder |-> "",
          node |-> StatementsN(<<AssignmentN("m", Literal(3)),
            AssignmentN("x", ClampE(UserE("GET_LENGTH"), Literal(1), LoadE("m"))),
            SpecialN("YIELD")>>)]
    [] name = "for_blits" ->
         \* for(i = get_length - 2) { i; blit }
         [remainder |-> "",
          node |-> StatementsN(<<
            ForN("i", BinaryE(UserE("GET_LENGTH"), "SUB", Literal(2)),
                 <<ExpressionN(LoadE("i")), Blit>>)>>)]
    [] name = "loads" ->
         \* a = 7; set_pixel(a - 6, a, 1, a); if(a) { b = a; random(b) };
         \* for(i = 2) { c = a; random(c + a) }
         [remainder |-> "",
          node |-> StatementsN(<<AssignmentN("a", Literal(7)),
            UserCallN("SET_PIXEL", <<BinaryE(LoadE("a"), "SUB", Literal(6)),
                                     LoadE("a"), Literal(1), LoadE("a")>>),
            IfN(LoadE("a"), <<AssignmentN("b", LoadE("a")),
                              ExpressionN(UserCallE("RANDOM_INT", <<LoadE("b")>>))>>),
            ForN("i", Literal(2), <<AssignmentN("c", LoadE("a")),
              ExpressionN(UserCallE("RANDOM_INT",
                                    <<BinaryE(LoadE("c"), "ADD", LoadE("a"))>>))>>)>>)]
    [] name = "set_pixel_wraps" ->
         \* set_pixel(get_length - 2, get_length + 254, 513, get_length)
         [remainder |-> "",
          node |-> StatementsN(<<
            UserCallN("SET_PIXEL", <<BinaryE(UserE("GET_LENGTH"), "SUB", Literal(2)),
                                     BinaryE(UserE("GET_LENGTH"), "ADD", Literal(254)),
                                     Literal(513), UserE("GET_LENGTH")>>)>>)]
    [] name = "shifts" ->
         \* x = 512 >> 8; y = (get_length + 510) >> 8; z = 1 << 8; yield
         [remainder |-> "",
          node |-> StatementsN(<<
            AssignmentN("x", UnaryE("SHR8", Literal(512))),
            AssignmentN("y", UnaryE("SHR8", BinaryE(UserE("GET_LENGTH"), "ADD", Literal(510)))),
            AssignmentN("z", UnaryE("SHL8", Literal(1))),
            SpecialN("YIELD")>>)]
    [] name = "empty" ->
         [remainder |-> "", node |-> StatementsN(<<>>)]

Sources ==
  {"loop_if_yield", "loop_set_pixel", "if_set_pixel", "set_pixel", "set_pixel_one", "nested_if",
   "padded_nested_if", "for_assign", "if_else", "for_if", "expressions", "redefined",
   "division_by_zero", "undefined_variable", "remainder", "empty", "counter",
   "if_else_blits", "if_else_nested", "clamp_between", "clamp_to_zero", "clamp_to_variable",
   "for_blits", "loads", "set_pixel_wraps", "shifts"}

\* A source is handed to `pwlp run`, with the options --deterministic and
\* --length.
CompilerStart ==
  \E name \in Sources, deterministic \in BOOLEAN, length \in {StripLength, 4} :
    compiler = [step |-> "source", source |-> name, deterministic |-> deterministic,
                length |-> length, program |-> ProgramStruct(<<>>, 0, 0)]

\* `pwlp run --binary`: the file is the program, Program::from_binary.
Binaries == {<<128, 228>>, <<231, 228>>, <<254, 112>>}   \* ADD; blit  USER 7; blit  yield; INC
BinaryStart ==
  \E data \in Binaries, deterministic \in BOOLEAN, length \in {StripLength, 4} :
    compiler = [step |-> "compiled", source |-> "binary", deterministic |-> deterministic,
                length |-> length,
                program |-> ProgramStruct(Program_from_binary(data), 0, 0)]

CompilerIdle ==
  compiler = [step |-> "idle", source |-> "empty", deterministic |-> FALSE,
              length |-> StripLength, program |-> ProgramStruct(<<>>, 0, 0)]

\* `match parse(&source)`: the program, a panic "Parsing failed" on Err, or
\* the panic the assembly ended in.
Compile ==
  /\ compiler.step = "source"
  /\ LET r == parse(Source(compiler.source).remainder, Source(compiler.source).node) IN
     compiler' = IF ~r.ok THEN [compiler EXCEPT !.step = "rejected"]
                 ELSE [compiler EXCEPT !.step = IF r.v.abort = None THEN "compiled" ELSE "aborted",
                                       !.program = r.v]
  /\ UNCHANGED <<vmVars, clock, codecVars, serverVars, clientVars>>

\* vm_from_options and vm.start(program, instruction_limit) of `pwlp run`
\* without --instruction-limit.
StartCompiled ==
  /\ compiler.step = "compiled"
  /\ compiler' = [compiler EXCEPT !.step = "started"]
  /\ vm' = VM_new(DummyStrip_new(compiler.length), compiler.deterministic)
  /\ state' = start(compiler.program.code, NoLimit)
  /\ call' = NoCall
  /\ strip_log' = <<>>
  /\ UNCHANGED <<clock, codecVars, serverVars, clientVars>>

\* `while running { match state.run(None)`: the loop goes on after Yielded
\* and after an Error.
RunCompiledCall ==
  /\ compiler.step = "started"
  /\ ~call.active
  /\ call.outcome \in {None, "Yielded", "Error_UnknownInstruction", "Error_StackUnderflow"}
  /\ call' = [active |-> TRUE, limit |-> NoLimit, lc |-> 0, outcome |-> None, dispatched |-> 0,
              resumed |-> call.outcome # None]
  /\ UNCHANGED <<compilerVars, vm, state, clock, strip_log, codecVars, serverVars, clientVars>>

\* One turn of the loop of State::run on the compiled program.
RunCompiledStep ==
  /\ compiler.step = "started"
  /\ call.active
  /\ LET it == RunIter(vm, state, call.lc, call.limit, clock) IN
     /\ it.ran => state.instruction_count < MaxSteps
     /\ vm' = it.res.vm
     /\ state' = it.res.st
     /\ strip_log' = strip_log \o it.res.eff
     /\ call' = [call EXCEPT !.lc = it.lc,
                             !.dispatched = IF it.ran THEN @ + 1 ELSE @,
                             !.outcome = it.res.out,
                             !.active = (it.res.out = None)]
  /\ UNCHANGED <<compilerVars, clock, codecVars, serverVars, clientVars>>

\* ------------------------------------------------------- frames off the wire
\* What recv_from can hand to Message::from_buffer: a frame as it was signed,
\* a signed frame with one byte changed on the way, the first bytes of a
\* signed frame, and a cut-off header followed by the HMAC over it.
WireMessages ==
  { Message("Run", MacA, U32(7), <<<<17, 1, 254>>>>),
    Message("Ping", MacB, <<239, 190, 173, 222>>, <<>>) }

Sealed(data, key) == data \o hmac_sha1(key, data)

TamperedFrames(m, key) ==
  { [signed(m, key) EXCEPT ![i] = (@ + d) % 256] :
      i \in 1..Len(signed(m, key)), d \in {1, 128, 255} }

ShortBuffers(m, key) ==
  { SubSeq(signed(m, key), 1, n) :
      n \in 0..(MAC_SIZE + TIME_SIZE + MESSAGE_TYPE_SIZE + SHA1_SIZE - 1) }
    \cup { Sealed(SubSeq(m.mac_address \o m.unix_time, 1, k), key) :
             k \in 0..(MAC_SIZE + TIME_SIZE) }

WireStart ==
  \E m \in WireMessages, key \in Secrets :
    \E buf \in {signed(m, key)} \cup TamperedFrames(m, key) \cup ShortBuffers(m, key) :
      codec = [step |-> "signed", msg |-> m, secret |-> key, wire |-> buf,
               parsed |-> Err(None)]

\* -------------------------------------------- frames of every message type
\* Frames of the five message types (9 stands for a type byte that is none of
\* the four) as they reach the server, from MacA and MacB under both secrets.
TypeBytes == {1, 2, 3, 4, 9}

FramesToServer ==
  {Frame(mac, U32(7), t, <<>>, key) : mac \in Macs, t \in TypeBytes, key \in Secrets}
  \cup {Frame(MacB, U32(7), 4, Padding \o FileProgram, "secret")}

\* Frames of the five message types as they reach the client, under its
\* secret and under another one.
FramesToClient ==
  {Frame(NilMac, U32(7), t, Padding \o LoopProgram, key) : t \in TypeBytes, key \in Secrets}
  \cup {Frame(NilMac, U32(7), t, <<>>, "secret") : t \in TypeBytes}

\* ------------------------------------------------------------ disassembler
\* The operand bytes the Debug listing of a Program steps over behind an
\* opcode.
OperandBytes(byte) ==
  CASE Prefix_from(byte) = "PUSHI" -> 4 * (byte % 16)
    [] Prefix_from(byte) = "PUSHB" -> byte % 16
    [] Prefix_from(byte) \in {"JMP", "JZ", "JNZ"} -> 2
    [] OTHER -> 0

\* impl fmt::Debug for Program, from pc on: the pcs printed with an opcode so
\* far are `printed`; the listing ends at the end of the code ("End"), at the
\* line 'Unknown instruction' ("Unknown"), or aborts where the operands of an
\* opcode reach beyond the code.
RECURSIVE Program_fmt(_, _, _)
Program_fmt(code, pc, printed) ==
  IF ~(pc < Len(code)) THEN [pcs |-> printed, end |-> "End"]
  ELSE IF Prefix_from(code[pc + 1]) = None THEN [pcs |-> printed, end |-> "Unknown"]
  ELSE IF ~(pc + OperandBytes(code[pc + 1]) < Len(code))
  THEN [pcs |-> printed \cup {pc}, end |-> Panic]
  ELSE Program_fmt(code, pc + OperandBytes(code[pc + 1]) + 1, printed \cup {pc})

\* The addresses the jumps printed in the listing lead to.
JumpTargets(code, pcs) ==
  { code[pc + 2] + 256 * code[pc + 3] :
      pc \in {q \in pcs : Prefix_from(code[q + 1]) \in {"JMP", "JZ", "JNZ"}} }

\* ----------------------------------------------------------- specifications
NextVM ==
  \/ \E k \in LocalLimits : RunCall(k)
  \/ RunStep
  \/ Tick

InitVM == VMStart /\ clock = 0 /\ CodecIdle /\ ServerIdle /\ ClientIdle /\ CompilerIdle
SpecVM == InitVM /\ [][NextVM]_vars

NextCodec ==
  \/ CodecSign
  \/ CodecParse

InitCodec == VMIdle /\ clock = 0 /\ CodecStart /\ ServerIdle /\ ClientIdle /\ CompilerIdle
SpecCodec == InitCodec /\ [][NextCodec]_vars

NextWire == CodecParse
InitWire == VMIdle /\ clock = 0 /\ WireStart /\ ServerIdle /\ ClientIdle /\ CompilerIdle
SpecWire == InitWire /\ [][NextWire]_vars

NextServer ==
  \/ \E buf \in ServerDatagrams, a \in Addresses :
       \E file \in FileResultsFor(server, buf) : Receive(buf, a, file)
  \/ \E mac \in Macs, name \in {"off", "none"}, ok \in BOOLEAN :
       set_builtin_program(mac, name, ok)
  \/ Tick

InitServer == VMIdle /\ clock = 0 /\ CodecIdle /\ ServerStart /\ ClientIdle /\ CompilerIdle
SpecServer == InitServer /\ [][NextServer]_vars

\* The server thread and an API call, step by step under the mutex.
NextLock ==
  \/ \E buf \in LockDatagrams, a \in Addresses : ServerRecv(buf, a)
  \/ ServerConfig
  \/ ServerDecode
  \/ ServerLock
  \/ \E file \in FileResultsFor(server, threads.server.buf) : ServerRead(file)
  \/ ServerInsert
  \/ ServerUnlock
  \/ \E mac \in Macs, name \in {"off", "none"} : ApiCall(mac, name)
  \/ ApiLock
  \/ \E ok \in BOOLEAN : ApiRead(ok)
  \/ ApiInsert
  \/ ApiUnlock
  \/ Tick
InitLock == VMIdle /\ clock = 0 /\ CodecIdle /\ LockStart /\ ClientIdle /\ CompilerIdle
SpecLock == InitLock /\ [][NextLock]_vars

\* A process started as a server, or as a client of which the network thread
\* is followed, receiving frames of every message type.
NextFrames ==
  \/ \E buf \in FramesToServer, a \in Addresses :
       \E file \in FileResultsFor(server, buf) : Receive(buf, a, file)
  \/ NetPing
  \/ NetIntervalElapsed
  \/ \E buf \in FramesToClient : NetReceive(buf)

InitFrames ==
  /\ VMIdle
  /\ clock = 0
  /\ CodecIdle
  /\ CompilerIdle
  /\ \/ ServerStart /\ ClientIdle
     \/ ServerIdle /\ ClientStart
SpecFrames == InitFrames /\ [][NextFrames]_vars

NextClient ==
  \/ NetPing
  \/ NetIntervalElapsed
  \/ \E buf \in ClientDatagrams : NetReceive(buf)
  \/ StripRecv
  \/ StripStart
  \/ StripRunCall
  \/ StripRunStep
  \/ StripPoll

InitClient ==
  /\ vm = VM_new(DummyStrip_new(StripLength), FALSE)
  /\ state = State_new(<<>>, NoLimit)
  /\ call = NoCall
  /\ strip_log = <<>>
  /\ clock = 0
  /\ CodecIdle
  /\ ServerIdle
  /\ ClientStart
  /\ CompilerIdle
SpecClient == InitClient /\ [][NextClient]_vars

\* The strip thread, being the main thread of the process, is scheduled as
\* long as it can take a step.
SpecClientFair == SpecClient /\ WF_vars(StripThread)

\* The network thread is scheduled as well, and time passes: the Ping is sent
\* when it is due and the ping interval comes to its end.
SpecKeepalive == SpecClientFair /\ WF_vars(NetPing) /\ WF_vars(NetIntervalElapsed)

NextCompiler ==
  \/ Compile
  \/ StartCompiled
  \/ RunCompiledCall
  \/ RunCompiledStep

InitCompiler == VMIdle /\ clock = 0 /\ CodecIdle /\ ServerIdle /\ ClientIdle /\ CompilerStart
SpecCompiler == InitCompiler /\ [][NextCompiler]_vars

\* `pwlp run --binary`: the program is started and run in the loop of main.
NextBinary ==
  \/ StartCompiled
  \/ RunCompiledCall
  \/ RunCompiledStep
InitBinary == VMIdle /\ clock = 0 /\ CodecIdle /\ ServerIdle /\ ClientIdle /\ BinaryStart
SpecBinary == InitBinary /\ [][NextBinary]_vars

\* ------------------------------------------------------------- VM properties
\* C1: a call run(Some(k)) dispatches at most k opcodes, whatever the program
\* and the state it is entered in.
RunDispatchesAtMostK == call.limit # NoLimit => call.dispatched <= call.limit[1]

\* A call run(Some(2)) that returned at its limit after two opcodes.
RunDispatchesAtMostK_witness ==
  /\ ~call.active
  /\ call.limit = Some(2)
  /\ call.dispatched = 2
  /\ call.outcome = "LocalInstructionLimitReached"

\* What run(None) entered now would leave behind: outcome, State, VM and log.
Whole(v, st, log, now) ==
  LET w == run(v, st, 0, NoLimit, now)
  IN [out |-> w.out, st |-> w.st, vm |-> w.vm, log |-> log \o w.eff]

\* C2: slicing is transparent.  A turn of a sliced call that returns at the
\* local limit changes nothing; a turn that dispatches leaves what run(None)
\* will leave behind unchanged; a turn that returns any other outcome returns
\* what run(None) entered in its place returns, in the same State and VM and
\* after the same strip operations.
SlicingIsTransparent ==
  [][ (call.active /\ clock' = clock) =>
        CASE call'.outcome = None ->
               Whole(vm, state, strip_log, clock) = Whole(vm', state', strip_log', clock)
          [] call'.outcome = "LocalInstructionLimitReached" ->
               vm' = vm /\ state' = state /\ strip_log' = strip_log
          [] OTHER ->
               Whole(vm, state, strip_log, clock) =
                 [out |-> call'.outcome, st |-> state', vm |-> vm', log |-> strip_log'] ]_vars

\* A run resumed after a limit return that got to a YIELD past a SET_PIXEL.
SlicingIsTransparent_witness ==
  /\ ~call.active
  /\ call.resumed
  /\ call.limit # NoLimit
  /\ call.outcome = "Yielded"
  /\ state.instruction_count >= 3
  /\ strip_log # <<>>

\* C3: run always returns one of its outcomes; it never aborts the process.
VMIsTotal == call.outcome \in Outcomes \cup {None}


\* ---------------------------------------------------------- codec properties
\* C6: parsing a signed message with the secret it was signed with gives back
\* its MAC, time, type and payload bytes.
CodecRoundTrip ==
  codec.step = "parsed" =>
    /\ codec.parsed.ok
    /\ codec.parsed.v.mac_address = codec.msg.mac_address
    /\ codec.parsed.v.unix_time = codec.msg.unix_time
    /\ codec.parsed.v.message_type = codec.msg.message_type
    /\ PayloadBytes(codec.parsed.v.payload) = PayloadBytes(codec.msg.payload)

\* --------------------------------------------------------- server properties
\* The MAC a buffer long enough to hold one starts with.
MacOf(buf) == SubSeq(buf, 1, MAC_SIZE)

\* The buffer carries a whole header and its HMAC verifies under the secret
\* the server resolves for its MAC.
AuthenticatedFrame(srv, buf) ==
  /\ Len(buf) >= MAC_SIZE + TIME_SIZE + MESSAGE_TYPE_SIZE + SHA1_SIZE
  /\ Verifies(buf, secret_for(srv.config, MacOf(buf), "secret"))

AuthenticatedPing(srv, buf) ==
  AuthenticatedFrame(srv, buf) /\ buf[MAC_SIZE + TIME_SIZE + 1] = 1

\* The HMAC of the buffer does not verify under the secret resolved for it.
Unverified(srv, buf) ==
  ~(Len(buf) >= MAC_SIZE + SHA1_SIZE /\ Verifies(buf, secret_for(srv.config, MacOf(buf), "secret")))

\* C7: a datagram whose HMAC does not verify under the secret resolved for its
\* MAC changes no device entry and is not answered, and every key of the device
\* table is a MAC a correctly signed frame was received from.
UnverifiedDatagramIgnored ==
  /\ [](DOMAIN server.devices \subseteq authenticated)
  /\ [][ (inbox'.op = "receive" /\ Unverified(server, inbox'.buf)) =>
           (server' = server /\ sent' = <<>>) ]_vars

\* A Ping of MacB signed with the wrong secret was received from a device that
\* has no entry, and it has none afterwards.
UnverifiedDatagramIgnored_witness ==
  /\ inbox.op = "receive"
  /\ Len(inbox.buf) = MAC_SIZE + TIME_SIZE + MESSAGE_TYPE_SIZE + SHA1_SIZE
  /\ inbox.buf[MAC_SIZE + TIME_SIZE + 1] = 1
  /\ MacOf(inbox.buf) = MacB
  /\ Unverified(server, inbox.buf)
  /\ MacB \notin DOMAIN server.devices
  /\ MacA \in DOMAIN server.devices
  /\ sent = <<>>

\* C8: an authenticated Ping is answered by one Pong and then one Run, both to
\* the source of the Ping, with its unix_time and the nil MAC, the Pong without
\* payload.
PingCausesPongThenRun ==
  (inbox.op = "receive" /\ AuthenticatedPing(server, inbox.buf)) =>
    /\ Len(sent) = 2
    /\ sent[1].msg.message_type = "Pong"
    /\ sent[2].msg.message_type = "Run"
    /\ sent[1].msg.payload = <<>>
    /\ \A i \in 1..2 :
         /\ sent[i].to = inbox.source
         /\ sent[i].msg.unix_time = SubSeq(inbox.buf, MAC_SIZE + 1, MAC_SIZE + TIME_SIZE)
         /\ sent[i].msg.mac_address = NilMac

\* C9: the reply to an authenticated Ping that goes beyond the Pong is a Run
\* carrying the program recorded for the device, else its configured program
\* file, else the default program, and the device entry records the program
\* sent.
RunPayloadByPriority ==
  [][ (inbox'.op = "receive" /\ AuthenticatedPing(server, inbox'.buf) /\ Len(sent') > 1) =>
        LET mac == MacOf(inbox'.buf)
            recorded == IF mac \in DOMAIN server.devices THEN server.devices[mac].program
                        ELSE <<>>
            configured == mac \in DOMAIN server.config /\ server.config[mac].program # <<>>
            expected == IF recorded # <<>> THEN recorded[1]
                        ELSE IF configured THEN inbox'.file.v
                        ELSE DefaultProgram
        IN /\ Len(sent') = 2
           /\ sent'[2].msg.message_type = "Run"
           /\ sent'[2].msg.payload = <<expected>>
           /\ server'.devices[mac].program = <<expected>> ]_vars

\* A Ping of MacA, which has a program file configured, was answered with the
\* built-in program the HTTP API had recorded for it.
RunPayloadByPriority_witness ==
  /\ inbox.op = "receive"
  /\ AuthenticatedPing(server, inbox.buf)
  /\ MacOf(inbox.buf) = MacA
  /\ server.config[MacA].program # <<>>
  /\ Len(sent) = 2
  /\ sent[2].msg.payload = <<BUILTIN_PROGRAMS("off")>>
  /\ server.devices[MacA].program = <<BUILTIN_PROGRAMS("off")>>

\* C10: after an authenticated frame is handled, the entry of its MAC has the
\* source address of the frame and the handling time as last_seen.
StatusUpdatedOnEveryFrame ==
  (inbox.op = "receive" /\ AuthenticatedFrame(server, inbox.buf) /\ server.status = "running") =>
    /\ MacOf(inbox.buf) \in DOMAIN server.devices
    /\ server.devices[MacOf(inbox.buf)].address = inbox.source
    /\ server.devices[MacOf(inbox.buf)].last_seen = inbox.now

\* --------------------------------------------------------- client properties
\* C4: the strip thread takes a program from the channel only when no call of
\* State::run is in progress; an opcode is only ever dispatched from the
\* program started last, with no program taken and waiting to be started; and
\* a program is started in a fresh State: pc 0, empty stack, instruction
\* count 0.
ReplacementAtSliceBoundary ==
  [][ /\ channel' # channel /\ Len(channel') < Len(channel) =>
           /\ ~call.active
           /\ client.pos = "recv" \/ call.outcome \in Outcomes
      /\ call'.dispatched = call.dispatched + 1 =>
           /\ client.program = <<>>
           /\ state.program = Last(client.started)
           /\ state'.program = state.program
      /\ client'.started # client.started =>
           /\ state'.program = Last(client'.started)
           /\ state'.pc = 0
           /\ state'.stack = <<>>
           /\ state'.instruction_count = 0 ]_vars

\* A program that loops without yielding was replaced after a slice of 1000
\* opcodes returned at its limit, and the replacement has just been started.
ReplacementAtSliceBoundary_witness ==
  /\ client.pos = "call"
  /\ Len(client.started) = 2
  /\ client.started[1] = LoopProgram
  /\ client.started[2] # client.started[1]
  /\ call.outcome = "LocalInstructionLimitReached"
  /\ call.dispatched = instruction_limit_per_cycle
  /\ state.pc = 0
  /\ state.instruction_count = 0

\* The network thread sends no more programs.
NetDone == net.received = MaxDeliveries \/ net.status = "panicked"

\* The programs started after the initial one are the first programs sent, in
\* the order they were sent.
StartedInOrder ==
  LET n == Len(client.started) - client.initial
  IN /\ n <= Len(net.sent)
     /\ \A i \in 1..n : client.started[client.initial + i] = net.sent[i]

\* C5: programs are started in the order the network thread sent them, and
\* once it has sent its last program the strip thread eventually starts that
\* program and from then on runs no other.
NewestProgramStarts ==
  /\ []StartedInOrder
  /\ (NetDone /\ net.sent # <<>>) ~>
       [](/\ channel = <<>>
          /\ client.taken = Len(net.sent)
          /\ client.program = <<>>
          /\ net.sent # <<>>
          /\ state.program = Last(net.sent))

\* ------------------------------------------------------- recovery properties
\* C11: the server finishes handling every datagram and goes on to the next
\* one, and a datagram that fails parsing or verification changes nothing.
ServerRecovers ==
  inbox.op = "receive" =>
    /\ server.status = "running"
    /\ (Unverified(server, inbox.buf) => sent = <<>>)

\* C12: the network thread of the client is not ended by a datagram it
\* receives: it drops a bad one and goes on with its loop.
ClientNetRecovers == net.status # "panicked"

\* The program in the State has stopped: the last call of State::run returned
\* Ended or GlobalInstructionLimitReached, or met a fault (an Error outcome or
\* an abort).
ProgramStopped ==
  /\ client.status # "idle"
  /\ client.pos \in {"run", "poll", "recv"}
  /\ ~call.active
  /\ call.outcome \in {"Ended", "GlobalInstructionLimitReached", "Error_UnknownInstruction",
                       "Error_StackUnderflow", Panic}

\* C13: a program that has stopped is not continued (the strip thread enters
\* State::run again on the same State only after LocalInstructionLimitReached
\* or Yielded), and once a program has been delivered the strip thread starts
\* a program again.
StoppedProgramReplaced ==
  /\ [][ (client.pos = "poll" /\ client'.pos = "call") =>
           call.outcome \in {"LocalInstructionLimitReached", "Yielded"} ]_vars
  /\ \A n \in 0..(MaxDeliveries + 1) :
       (ProgramStopped /\ Len(client.started) = n /\ (channel # <<>> \/ client.program # <<>>))
         ~> (Len(client.started) > n)

\* C14: the network thread sends its Ping again and again, for ever: it is
\* time and again about to send it and time and again has just sent it,
\* whatever it receives in between.
KeepaliveForever ==
  /\ []<>(net.status = "running" /\ net.pos = "ping")
  /\ []<>(net.status = "running" /\ net.pos = "listen")

\* C15: the programs handed to the strip thread are, byte for byte and in
\* order, the payloads the senders put in the authenticated Run frames the
\* client received.
ProgramDeliveredIntact == net.sent = net.payloads

\* ---------------------------------------------------------------- determinism
\* C16: in deterministic mode what an execution does from any state it has
\* reached (outcome, State, strip and the log of strip operations with the
\* contents at every blit) is the same at every reading of the clock; with C2
\* it is the same however the execution is cut into slices.
DeterministicRun ==
  vm.deterministic =>
    \A t \in 0..MaxClock : Whole(vm, state, strip_log, t) = Whole(vm, state, strip_log, clock)

\* A deterministic execution of a program that reads both clocks and draws a
\* random number has yielded, at a later reading of the clock than it began.
DeterministicRun_witness ==
  /\ vm.deterministic
  /\ state.program = <<225, 226, 229, 254, 64, 0, 0>>
  /\ call.outcome = "Yielded"
  /\ Len(state.stack) = 2
  /\ clock = 1

\* ------------------------------------------------------------ the first slice
\* The operand bytes that follow an opcode in the code.
InlineBytes(code) ==
  LET postfix == code % 16 IN
  CASE Prefix_from(code) = "PUSHI" -> 4 * postfix
    [] Prefix_from(code) = "PUSHB" -> postfix
    [] OTHER -> 0

\* Where the second opcode to execute starts in a program entered with an
\* empty stack: at the target of a JMP, else behind the first opcode and its
\* operands.
SecondOpcode(program) ==
  IF Prefix_from(program[1]) = "JMP" /\ Len(program) >= 3
  THEN program[2] + 256 * program[3]
  ELSE 1 + InlineBytes(program[1])

\* A call run(Some(1)) on a nonempty program has returned, and it was entered
\* in a fresh State: every opcode the State has counted was dispatched by it.
FirstSliceReturned ==
  /\ ~call.active
  /\ call.outcome # None
  /\ call.limit = Some(1)
  /\ state.program # <<>>
  /\ state.instruction_count = call.dispatched

FirstRunReturned ==
  compiler.step = "started" /\ ~call.active /\ call.outcome # None /\ ~call.resumed

\* C17: whenever the execution of a program produced by parse returns Ended,
\* the VM stack is empty: every local the compiler introduced (assignments,
\* for-counters, conditions) has been popped.
CompiledEndsWithEmptyStack ==
  (compiler.step = "started" /\ ~call.active /\ call.outcome = "Ended") => state.stack = <<>>

\* The panics of the assertions on the predicted stack delta of a fragment.
FragmentAssertions ==
  {"fragment in branch cannot modify stack size", "fragment in loop cannot modify stack size"}

\* C18: for every program the grammar accepts, every fragment built for an if
\* body, else body, loop body or for body has predicted stack delta zero, so
\* the assertions of the assembler on it never fire and the compilation is not
\* aborted by them.
FragmentsAreBalanced ==
  (compiler.step # "source" /\ Source(compiler.source).remainder = "")
    => compiler.program.abort \notin FragmentAssertions

\* C20 as stated: `loop { if(1+2*3>4) { yield }; dump }` parses with no
\* remainder and compiles, run(None) on the compiled program returns Yielded
\* at the first yield, and the VM stack is empty at that moment.
YieldsWithEmptyStack ==
  compiler.source = "loop_if_yield" =>
    /\ compiler.step \in {"source", "compiled", "started"}
    /\ FirstRunReturned => call.outcome = "Yielded" /\ state.stack = <<>>

\* C20, amended: the source parses with no remainder and compiles, run(None)
\* returns Yielded at the first yield, which is the third opcode dispatched
\* (the push of the folded condition, JZ, YIELD), with pc behind the YIELD; the
\* VM stack then holds one entry, the value 1 of the condition, which is
\* popped only behind the body of the if.
YieldsWithConditionOnStack ==
  compiler.source = "loop_if_yield" =>
    /\ compiler.step \in {"source", "compiled", "started"}
    /\ (compiler.step = "started" /\ ~call.resumed) => call.dispatched <= 3
    /\ FirstRunReturned =>
         /\ call.outcome = "Yielded"
         /\ call.dispatched = 3
         /\ Special_from(Code(state, state.pc - 1) % 16) = "YIELD"
         /\ state.stack = <<One32>>

YieldsWithConditionOnStack_witness ==
  /\ compiler.source = "loop_if_yield"
  /\ FirstRunReturned
  /\ call.outcome = "Yielded"
  /\ Len(state.stack) = 1

\* The frames the strip was asked to show: the data of each blit, in order.
Blits(log) == SelectSeq(log, LAMBDA entry : entry[1] = "blit")

\* The frame of four pixels whose first k pixels are red and whose others are
\* green.
CounterFrame(k) ==
  [i \in 1..12 |-> IF (i - 1) \div 3 < k
                   THEN (IF (i - 1) % 3 = 0 THEN 255 ELSE 0)
                   ELSE (IF (i - 1) % 3 = 1 THEN 255 ELSE 0)]

\* C21: the source `counter=0; loop { counter = (counter+1) % get_length;
\* for(i=get_length) { if(i<=counter) { set_pixel(i-1, 0xFF, 0, 0) } else {
\* set_pixel(i-1, 0, 0xFF, 0) } }; blit; yield }` compiles, and run in
\* deterministic mode on a strip of length 4 its first four blits show the
\* frames (R,G,G,G), (R,R,G,G), (R,R,R,G), (R,R,R,R).
CounterShowsFrames ==
  compiler.source = "counter" =>
    /\ compiler.step \in {"source", "compiled", "started"}
    /\ (compiler.step = "started" /\ vm.deterministic /\ vm.strip.length = 4) =>
         \A k \in 1..Len(Blits(strip_log)) :
           k <= 4 => Blits(strip_log)[k][2] = CounterFrame(k)


\* The turn of State::run about to be taken dispatches an opcode, and the
\* prefix and postfix of that opcode.
Dispatching == call.active /\ RunIter(vm, state, call.lc, call.limit, clock).ran
DispatchedPrefix == Prefix_from(Code(state, state.pc))
DispatchedPostfix == Code(state, state.pc) % 16

\* A BINARY DIV or MOD is about to be dispatched on a stack whose top is 0.
DividesByZero ==
  /\ Dispatching
  /\ DispatchedPrefix = "BINARY"
  /\ Binary_from(DispatchedPostfix) \in {"DIV", "MOD"}
  /\ Len(state.stack) >= 2
  /\ Last(state.stack) = Zero32

\* C22: a BINARY DIV or MOD whose right-hand operand is 0 makes run return
\* Error(DivisionByZero); PUSHI 0xDEADBEEF; PUSHB 0; BINARY DIV does.
DivisionByZeroIsError ==
  [][(DividesByZero /\ call' # call) => call'.outcome = "Error_DivisionByZero"]_vars


\* The byte is no instruction: its prefix nibble is none of the eleven, or its
\* postfix lies outside the range of its family.
UnknownOpcode(byte) ==
  \/ Prefix_from(byte) = None
  \/ Prefix_from(byte) = "UNARY" /\ byte % 16 > 5
  \/ Prefix_from(byte) = "USER" /\ byte % 16 > 6
  \/ Prefix_from(byte) = "SPECIAL" /\ (byte % 16 < 12 \/ byte % 16 = 15)

\* The turn of State::run about to be taken fetches the byte at pc: pc is
\* inside the program and neither instruction limit is reached.
Fetching ==
  /\ call.active
  /\ state.pc < Len(state.program)
  /\ RunIter(vm, state, call.lc, call.limit, clock).res.out
       \notin {"GlobalInstructionLimitReached", "LocalInstructionLimitReached"}

\* C23: fetching a byte with an unknown prefix nibble, or with a postfix
\* outside its family's range, makes run return Error(UnknownInstruction); run
\* returns Ended only when pc is at or past the end of the program.
UnknownOpcodeIsError ==
  [][(call.active /\ call' # call) =>
       /\ (Fetching /\ UnknownOpcode(Code(state, state.pc)))
            => call'.outcome = "Error_UnknownInstruction"
       /\ call'.outcome = "Ended" => state'.pc >= Len(state'.program)]_vars


\* A SET_PIXEL with a colour and an index on the stack, or a GET_PIXEL with an
\* index on it, is about to be dispatched, and the index is not below the
\* length of the strip.
IndexOutOfRange ==
  /\ Dispatching
  /\ DispatchedPrefix = "USER"
  /\ \/ /\ UserCommand_from(DispatchedPostfix) = "SET_PIXEL"
        /\ Len(state.stack) >= 2
        /\ ~StripIndexOk(vm.strip, Last(Pop(state.stack)))
     \/ /\ UserCommand_from(DispatchedPostfix) = "GET_PIXEL"
        /\ Len(state.stack) >= 1
        /\ ~StripIndexOk(vm.strip, Last(state.stack))

\* C24: SET_PIXEL and GET_PIXEL with an index at or beyond the length of the
\* strip make run return an error outcome (StripIndexOutOfRange) and leave
\* the strip unchanged.
StripIndexOutOfRangeIsError ==
  [][(IndexOutOfRange /\ call' # call) =>
       /\ call'.outcome = "Error_StripIndexOutOfRange"
       /\ vm'.strip = vm.strip]_vars


\* The number of stack entries the opcode about to be dispatched consumes or
\* inspects: two for BINARY, SWAP and SET_PIXEL (the colour and the index),
\* one for UNARY, JZ, JNZ, RANDOM_INT and GET_PIXEL.
StackNeeded ==
  CASE DispatchedPrefix = "BINARY" -> 2
    [] DispatchedPrefix = "UNARY" /\ Unary_from(DispatchedPostfix) # None -> 1
    [] DispatchedPrefix \in {"JZ", "JNZ"} -> 1
    [] DispatchedPrefix = "SPECIAL" /\ Special_from(DispatchedPostfix) = "SWAP" -> 2
    [] DispatchedPrefix = "USER" /\ UserCommand_from(DispatchedPostfix) = "SET_PIXEL" -> 2
    [] DispatchedPrefix = "USER"
         /\ UserCommand_from(DispatchedPostfix) \in {"RANDOM_INT", "GET_PIXEL"} -> 1
    [] OTHER -> 0

\* An opcode is about to be dispatched on a stack with too few entries.
Underflows == Dispatching /\ Len(state.stack) < StackNeeded

\* C25: every BINARY, UNARY, JZ, JNZ, SWAP and stack-consuming USER opcode
\* dispatched on a stack with fewer entries than it needs makes run return
\* Error(StackUnderflow).
UnderflowIsError ==
  [][(Underflows /\ call' # call) => call'.outcome = "Error_StackUnderflow"]_vars


\* ----------------------------------------------------------- wire properties
\* C26: from_buffer returns Err(MessageTooShort) for every buffer shorter than
\* the 31 bytes of a MAC, a time, a type and an HMAC, among them the buffers
\* shorter than the HMAC and those of 26 to 30 bytes.
ShortBufferIsTooShort ==
  (codec.step = "parsed"
     /\ Len(codec.wire) < MAC_SIZE + TIME_SIZE + MESSAGE_TYPE_SIZE + SHA1_SIZE)
    => codec.parsed = Err("MessageTooShort")


\* The positions at which the buffer received differs from the frame as it
\* was signed.
ChangedBytes ==
  {i \in 1..Len(codec.wire) : codec.wire[i] # signed(codec.msg, codec.secret)[i]}

\* The buffer received is the signed frame with exactly one byte changed.
SingleByteChanged ==
  /\ Len(codec.wire) = Len(signed(codec.msg, codec.secret))
  /\ Cardinality(ChangedBytes) = 1

\* C27: from_buffer returns Err(SignatureInvalid) for a signed frame one byte
\* of which was changed, wherever that byte lies: in the MAC, the time, the
\* type, the payload or the HMAC.
TamperedFrameRejected ==
  (codec.step = "parsed" /\ SingleByteChanged) => codec.parsed = Err("SignatureInvalid")

\* A signed frame one byte of whose payload was changed has been parsed.
TamperedFrameRejected_witness ==
  /\ codec.step = "parsed"
  /\ SingleByteChanged
  /\ codec.msg.payload # <<>>
  /\ \E i \in ChangedBytes :
       /\ i > MAC_SIZE + TIME_SIZE + MESSAGE_TYPE_SIZE
       /\ i <= Len(codec.wire) - SHA1_SIZE


\* ------------------------------------------------ message type properties
\* The program recorded for each device in the table.
RecordedPrograms(srv) == [mac \in DOMAIN srv.devices |-> srv.devices[mac].program]

\* The programs recorded before are still recorded, and no other is.
RecordedProgramsKept ==
  /\ \A mac \in DOMAIN server.devices :
       RecordedPrograms(server')[mac] = RecordedPrograms(server)[mac]
  /\ \A mac \in DOMAIN server'.devices \ DOMAIN server.devices :
       RecordedPrograms(server')[mac] = <<>>

\* The frame carries a whole header and verifies under the client's secret.
AuthenticatedForClient(buf) ==
  /\ Len(buf) >= MAC_SIZE + TIME_SIZE + MESSAGE_TYPE_SIZE + SHA1_SIZE
  /\ Verifies(buf, "secret")

\* The frames the client authenticates that are no Run frames.
IgnoredByClient ==
  {buf \in FramesToClient : AuthenticatedForClient(buf) /\ buf[MAC_SIZE + TIME_SIZE + 1] # 4}

\* C28: the server handles an authenticated Pong, Set, Run or Unknown frame
\* without sending a datagram and without changing the program recorded for
\* any device; the network thread of the client handles an authenticated
\* Ping, Pong, Set or Unknown frame without sending anything to the strip
\* thread.
OtherTypesIgnored ==
  [][/\ (server.status = "running"
           /\ AuthenticatedFrame(server, inbox'.buf)
           /\ inbox'.buf[MAC_SIZE + TIME_SIZE + 1] # 1)
         => (sent' = <<>> /\ RecordedProgramsKept /\ server'.status = "running")
     /\ (client.status = "running" /\ net'.received # net.received)
         => \A buf \in IgnoredByClient :
              NetReceive(buf)
                => (channel' = channel /\ net'.sent = net.sent /\ net'.status = "running")]_vars

\* The server has handled an authenticated Run frame of a device it holds a
\* program for.
OtherTypesIgnored_witness ==
  /\ inbox.op = "receive"
  /\ AuthenticatedFrame(server, inbox.buf)
  /\ inbox.buf[MAC_SIZE + TIME_SIZE + 1] = 4
  /\ server.devices[MacOf(inbox.buf)].program # <<>>
  /\ sent = <<>>

\* ------------------------------------------------ instruction limit properties
\* The State has an instruction limit, has dispatched as many opcodes as it
\* allows, and its pc is inside the program.
Exhausted(st) ==
  /\ st.instruction_limit # NoLimit
  /\ st.instruction_count >= st.instruction_limit[1]
  /\ st.pc < Len(st.program)

\* C29: with instruction_limit Some(L) the opcodes dispatched over all the
\* calls of run are never more than L; and once run has returned
\* GlobalInstructionLimitReached, every later call returns it again and
\* changes neither pc nor the stack nor the strip.
GlobalLimitIsFinal ==
  [][/\ state'.instruction_limit # NoLimit
          => state'.instruction_count <= state'.instruction_limit[1]
     /\ call'.outcome = "GlobalInstructionLimitReached" => Exhausted(state')
     /\ Exhausted(state) =>
          /\ state' = state
          /\ vm' = vm
          /\ strip_log' = strip_log
          /\ (call.active /\ call' # call)
               => call'.outcome = "GlobalInstructionLimitReached"]_vars

\* A call that found the limit reached when it was entered has returned
\* GlobalInstructionLimitReached without dispatching anything, after the
\* strip had been written.
GlobalLimitIsFinal_witness ==
  /\ call.outcome = "GlobalInstructionLimitReached"
  /\ call.dispatched = 0
  /\ state.instruction_count = state.instruction_limit[1]
  /\ state.stack # <<>>
  /\ strip_log # <<>>


\* -------------------------------------------------- disassembler properties
\* The listing of the program that was compiled.
Listing == Program_fmt(compiler.program.code, 0, {})

\* C30: a program the compiler emits consists of known opcodes with complete
\* operands: its listing reaches the end of the code without the line
\* 'Unknown instruction', and the pcs printed are the addresses the VM fetches
\* opcodes from; every jump target emitted is one of them (or the end of the
\* code).
ListingMatchesVM ==
  compiler.step \in {"compiled", "started"} =>
    /\ Listing.end = "End"
    /\ \A pc \in Listing.pcs : ~UnknownOpcode(compiler.program.code[pc + 1])
    /\ JumpTargets(compiler.program.code, Listing.pcs)
         \subseteq Listing.pcs \cup {Len(compiler.program.code)}
    /\ compiler.step = "started"
         => state.pc \in Listing.pcs \cup {Len(compiler.program.code)}


\* ------------------------------------------------------ jump target properties
\* The 16-bit operand of the jump whose opcode is at index `at` of the code.
JumpOperand(code, at) == code[at + 2] + 256 * code[at + 3]

\* C31: every jump the assembler emits has as its target the absolute byte
\* position, in the final top-level program, of the instruction it is meant
\* to reach: the first byte of the body for repeat and repeat_forever, the
\* first byte behind the body for if_zero and if_not_zero; jumps emitted in
\* nested bodies included.
JumpTargetsAreAbsolute ==
  compiler.step \in {"compiled", "started"} =>
    \A j \in compiler.program.jumps : JumpOperand(compiler.program.code, j.at) = j.to


\* ---------------------------------------------------------- if/else properties
\* The number of blits the then-body and the else-body of the if/else of a
\* source make when they are executed once.
IfElseBlits(name) ==
  CASE name = "if_else_blits" -> [then |-> 1, else |-> 2]
    [] name = "if_else_nested" -> [then |-> 1, else |-> 3]

\* C32: the code compiled for if(e) { .. } else { .. } evaluates e once and
\* executes exactly one of the two bodies, the then-body if and only if e is
\* not zero, with the condition still on the stack for the second jump and
\* popped afterwards: the run makes the blits of that body and no others, and
\* ends with an empty stack; bodies with a nested if included.
IfElseRunsOneBody ==
  compiler.source \in {"if_else_blits", "if_else_nested"} =>
    /\ compiler.step \in {"source", "compiled", "started"}
    /\ compiler.step = "started" =>
         Len(Blits(strip_log))
           <= (IF vm.strip.length # 2 THEN IfElseBlits(compiler.source).then
               ELSE IfElseBlits(compiler.source).else)
    /\ FirstRunReturned =>
         /\ call.outcome = "Ended"
         /\ state.pc = Len(state.program)
         /\ state.stack = <<>>
         /\ Len(Blits(strip_log))
              = (IF vm.strip.length # 2 THEN IfElseBlits(compiler.source).then
                 ELSE IfElseBlits(compiler.source).else)


\* C33: the code lowered for a clamp whose value is not constant ends without
\* a stack fault and leaves one entry, min(max(value, min), max), as constant
\* folding gives for the same operands; a variable as the maximum is read
\* from its own slot.
ClampOperands(name, length) ==
  CASE name = "clamp_between" -> [below |-> <<>>, value |-> length, min |-> 3, max |-> 5]
    [] name = "clamp_to_zero" -> [below |-> <<>>, value |-> length, min |-> 0, max |-> 0]
    [] name = "clamp_to_variable" ->
         [below |-> <<U32(3)>>, value |-> length, min |-> 1, max |-> 3]
ClampSources == {"clamp_between", "clamp_to_zero", "clamp_to_variable"}
Clamped(o) == const_clamp(U32(o.value), U32(o.min), U32(o.max))
ForCount == vm.strip.length - 2
ReadOfLoopVariable == call.active /\ state.pc = 5 /\ Len(state.stack) = 2
ForRunsBodyCounterTimes ==
  compiler.source = "for_blits" =>
    /\ compiler.step \in {"source", "compiled", "started"}
    /\ compiler.step = "started" => Len(Blits(strip_log)) <= ForCount
    /\ (compiler.step = "started" /\ ReadOfLoopVariable) =>
         /\ state.stack[2] = state.stack[1]
         /\ state.stack[2] = U32(ForCount - Len(Blits(strip_log)))
    /\ FirstRunReturned =>
         /\ call.outcome = "Ended"
         /\ state.stack = <<>>
         /\ Len(Blits(strip_log)) = ForCount


\* C35: a PEEK written for Load(v) reads the slot of v: in `loads` every
\* variable holds 7 and is loaded in a set_pixel argument, a condition, an
\* if body, a for body and a call argument; in `clamp_to_variable` m holds 3
\* and is loaded as the maximum of a clamp.
LoadedValue(name) ==
  CASE name = "loads" -> U32(7)
    [] name = "clamp_to_variable" -> U32(3)
AboutToLoad ==
  compiler.step = "started" /\ call.active /\ state.pc \in compiler.program.loads
PeekOperand(code, at) == code[at + 1] - Prefix_u8("PEEK")
SetPixelStatement(name, length) ==
  CASE name = "set_pixel" -> [idx |-> 1, r |-> 255, g |-> 256, b |-> 3]
    [] name = "set_pixel_wraps" ->
         [idx |-> length - 2, r |-> length + 254, g |-> 513, b |-> length]
Painted(length, px) ==
  set_pixel(DummyStrip_new(length), px.idx, px.r % 256, px.g % 256, px.b % 256).data
SetPixelSources == {"set_pixel", "set_pixel_wraps"}
SetPixelWritesOnePixel ==
  compiler.source \in SetPixelSources =>
    /\ compiler.step \in {"source", "compiled", "started"}
    /\ compiler.step = "started" =>
         vm.strip.data \in {DummyStrip_new(vm.strip.length).data,
                            Painted(vm.strip.length,
                                    SetPixelStatement(compiler.source, vm.strip.length))}
    /\ FirstRunReturned =>
         /\ call.outcome = "Ended"
         /\ state.stack = <<>>
         /\ vm.strip.data = Painted(vm.strip.length,
                                    SetPixelStatement(compiler.source, vm.strip.length))

\* A set_pixel whose arguments are not constants has written its pixel, the
\* third of a strip of four, and the run has ended.
SetPixelWritesOnePixel_witness ==
  /\ compiler.source = "set_pixel_wraps"
  /\ FirstRunReturned
  /\ vm.strip.data = <<0, 0, 0, 0, 0, 0, 2, 1, 4, 0, 0, 0>>


\* C37: a shift of a literal folds to what the VM computes for it: in
\* `x = 512 >> 8; y = (get_length + 510) >> 8; z = 1 << 8; yield` the folded x
\* is 512 >> 8 = 2, as the y shifted at run time, and the folded z is 256.
ShiftsFoldAsExecuted ==
  compiler.source = "shifts" =>
    /\ compiler.step \in {"source", "compiled", "started"}
    /\ FirstRunReturned =>
         /\ call.outcome = "Yielded"
         /\ state.stack = <<Shr8(U32(512)), Shr8(U32(vm.strip.length + 510)), Shl8(U32(1))>>


\* C38: once a run of `pwlp run` has returned Error, the program is not run
\* again: no further call of run is made, the VM state and the strip stay.
RunReturnedError ==
  /\ compiler.step = "started"
  /\ ~call.active
  /\ call.outcome \in {"Error_UnknownInstruction", "Error_StackUnderflow"}
ErrorEndsRunLoop ==
  [][RunReturnedError => (call' = call /\ state' = state /\ strip_log' = strip_log)]_vars


\* C39: the API's set_builtin_program and the server's handling of a
\* datagram each read and write the device's entry atomically: the copy a
\* thread is about to insert was made from the entry as it is now; once the
\* API call has set a program and the server is outside of its locked block
\* the entry holds that program, and the last_seen the server wrote last; and
\* the mutex is only ever held by a thread on its way to releasing it.
InLockedBlock(pc) == pc \in {"read", "insert", "unlock"}
CopiesAreFresh ==
  /\ threads.server.pc = "insert" => threads.server.seen = EntryOf(server.devices, ThreadMac)
  /\ threads.api.pc = "insert"
       => threads.api.seen = EntryOf(server.devices, threads.api.device)
ApiProgramKept ==
  (threads.api.result = "Set" /\ ~InLockedBlock(threads.server.pc))
    => server.devices[threads.api.device].program = <<BUILTIN_PROGRAMS(threads.api.name)>>
ServerLastSeenKept ==
  (threads.server.written # <<>> /\ ~InLockedBlock(threads.server.pc)
     /\ ~InLockedBlock(threads.api.pc))
    => server.devices[MacA].last_seen = threads.server.written[1]
HolderReleases ==
  /\ threads.lock = "server" => InLockedBlock(threads.server.pc)
  /\ threads.lock = "api" => InLockedBlock(threads.api.pc)
  /\ threads.lock = "free" => ~InLockedBlock(threads.server.pc) /\ ~InLockedBlock(threads.api.pc)
NoLostUpdate == CopiesAreFresh /\ ApiProgramKept /\ ServerLastSeenKept /\ HolderReleases

\* The API call has set the program `off` for MacA and returned, the server
\* has handled two datagrams, the second after the clock ticked, and the
\* entry holds the program and that last_seen.
NoLostUpdate_witness ==
  /\ threads.api.pc = "done"
  /\ threads.api.result = "Set"
  /\ threads.server.handled = 2
  /\ threads.server.written = <<1>>
  /\ server.devices[MacA].program = <<BUILTIN_PROGRAMS("off")>>
  /\ server.devices[MacA].last_seen = 1


\* C40: the client only runs its initial program or the payload of a Run
\* frame that verified under its secret: every send on the channel was made
\* for such a frame, what was sent is the payload of that frame, and every
\* program started is the initial one or one of those payloads.
AuthenticRunPayloads ==
  {SentPayload(buf) : buf \in {b \in ClientDatagrams :
                                 /\ Verifies(b, "secret")
                                 /\ Len(b) > MAC_SIZE + TIME_SIZE + SHA1_SIZE
                                 /\ MessageType_from(b[MAC_SIZE + TIME_SIZE + 1]) = "Run"}}
ClientRunsAuthenticPrograms ==
  /\ Len(net.sent) = Len(net.payloads)
  /\ \A i \in DOMAIN net.payloads : net.payloads[i] \in AuthenticRunPayloads
  /\ \A i \in DOMAIN net.sent : net.sent[i] = net.payloads[i]
  /\ \A i \in DOMAIN channel : channel[i] \in AuthenticRunPayloads
  /\ \A i \in DOMAIN client.started :
       \/ i = 1 /\ client.initial = 1 /\ client.started[i] \in {p[1] : p \in InitialPrograms \ {<<>>}}
       \/ client.started[i] \in AuthenticRunPayloads

====
